---- MODULE Spec2Model ----
(***************************************************************************)
(* A model of the go-problem Builder: the precedence resolution of a       *)
(* Problem from explicit overrides, fields inherited from a wrapped        *)
(* Problem, a Definition/Type and the Generator, with the lazily captured  *)
(* stack trace / generated UUID and the extension maps kept on a heap of   *)
(* map objects so that aliasing is observable.                             *)
(***************************************************************************)
EXTENDS Integers, Sequences, FiniteSets, TLC

VARIABLES
    gen,        \* the Generator of the Builder (read-only configuration)
    b,          \* the Builder's fields
    heap,       \* the Go map objects: heap[r] is the content of map r
    prob,       \* the outcome of the last Builder.Problem() call
    act,        \* the kind of the last operation performed
    stackCalls, \* number of invocations of stack.Take so far
    uuidCalls,  \* number of invocations of Generator.uuid so far
    nSet,       \* number of Builder setter calls and map mutations so far
    nBuild,     \* number of Builder.Problem() calls so far
    call,       \* the arguments of the package-level function under call
    ret         \* the result of the last call of a package-level function

vars == <<gen, b, heap, prob, act, stackCalls, uuidCalls, nSet, nBuild, call, ret>>

----------------------------------------------------------------------------
(* Bounds of the exploration *)

MaxSetterCalls == 2
MaxBuilds == 2

----------------------------------------------------------------------------
(* Program constants *)

FlagDisable == 0
FlagField == 1
FlagLog == 2

LogLevelDebug == 1
LogLevelInfo == 2
LogLevelWarn == 3
LogLevelError == 4
DefaultLogLevel == LogLevelError

StatusInternalServerError == 500
DefaultTitle == "Unknown Error"
DefaultTypeURI == "about:blank"

reservedExtensions ==
    {"code", "detail", "extensions", "instance", "stack", "status", "title", "type", "uuid"}

\* the nil function value / nil map reference
NilFn == "nil"
NilMap == 0

\* the zero rune, and a rune unicode.IsPrint rejects
NoRune == ""
BellRune == "BEL"
DefaultCodeSeparator == "-"

\* the nil NSValidator; any other is a LenNSValidator(min, max)
NilNSValidator == [fn |-> NilFn, min |-> 0, max |-> 0]

----------------------------------------------------------------------------
(* optional.Optional[Flag] *)

Empty == [present |-> FALSE, value |-> 0]
Of(v) == [present |-> TRUE, value |-> v]
OrElse(o, other) == IF o.present THEN o.value ELSE other

(* Flag is a bit set over uint8; only the two low bits are ever named *)
BitAnd(x, y) ==
    ((x % 2) * (y % 2)) + 2 * (((x \div 2) % 2) * ((y \div 2) % 2))
BitOr(x, y) ==
    (IF (x % 2) + (y % 2) > 0 THEN 1 ELSE 0)
    + 2 * (IF ((x \div 2) % 2) + ((y \div 2) % 2) > 0 THEN 1 ELSE 0)

\* checkFlag comparing the intersection with the wrong operand
checkFlagSwapped(flag, other) == BitAnd(flag, other) = flag

checkFlag(flag, other) == BitAnd(flag, other) = other

RECURSIVE resolveFlagLoop(_, _)
resolveFlagLoop(flags, res) ==
    IF flags = <<>> THEN res
    ELSE IF Head(flags) = FlagDisable THEN FlagDisable
    ELSE resolveFlagLoop(Tail(flags), BitOr(res, Head(flags)))

\* resolveFlag not giving FlagDisable precedence over the other flags listed
resolveFlagKeepsOthers(flags) ==
    IF Len(flags) > 0
    THEN Of((IF \E i \in 1..Len(flags) : flags[i] = FlagField THEN FlagField ELSE 0)
            + (IF \E i \in 1..Len(flags) : flags[i] = FlagLog THEN FlagLog ELSE 0))
    ELSE Of(BitOr(FlagField, FlagLog))

resolveFlag(flags) ==
    IF Len(flags) > 0 THEN Of(resolveFlagLoop(flags, 0))
    ELSE Of(BitOr(FlagField, FlagLog))

----------------------------------------------------------------------------
(* Values *)

ZeroLogInfo == [Level |-> 0, Stack |-> "", UUID |-> ""]

ZeroType == [LogLevel |-> 0, Status |-> 0, Title |-> "", TitleKey |-> "", URI |-> ""]

ZeroDefinition ==
    [Code |-> "", Detail |-> "", DetailKey |-> "", Extensions |-> NilMap,
     Instance |-> "", Type |-> ZeroType]

\* error values: nil, a Problem, or an error of another type wrapping `next`
NilErr == [kind |-> "nil"]
PlainErr(next) == [kind |-> "plain", next |-> next]

ZeroProblem ==
    [kind |-> "problem", Code |-> "", Detail |-> "", Extensions |-> NilMap,
     Instance |-> "", Stack |-> "", Status |-> 0, Title |-> "", Type |-> "",
     UUID |-> "", err |-> NilErr, logInfo |-> ZeroLogInfo]

\* the outcome of a Builder.Problem() call that panicked, and of no call yet
Fault == [kind |-> "panic"]
NoResult == [kind |-> "none"]

\* no package-level function is under call / was called
NoCall == [fn |-> "none"]

----------------------------------------------------------------------------
(* The maps that exist before the Builder is used, by heap reference *)

ArgMap == 1        \* a caller's map passed to Builder.Extensions
ArgEmptyMap == 2   \* a caller's non-nil map with no entries
InnerMap == 3      \* the Extensions of a Problem found in a wrapped error
InnerEmptyMap == 4 \* the Extensions of a Problem built as Extensions{}
DefMap == 5        \* Definition.Extensions of a well-formed Definition
DefReservedMap == 6 \* Definition.Extensions holding a reserved key

EmptyMapValue == [k \in {} |-> 0]

InitHeap ==
    << [k \in {"k1"} |-> 1],
       EmptyMapValue,
       [k \in {"k1"} |-> 5],
       EmptyMapValue,
       [k \in {"k2"} |-> 2],
       [k \in {"code"} |-> 9] >>

\* len(m) and the content of a possibly nil map
MapContent(h, r) == IF r = NilMap THEN EmptyMapValue ELSE h[r]
MapLen(h, r) == Cardinality(DOMAIN MapContent(h, r))

\* m[k] = v on a map value
MapPut(m, k, v) == [x \in (DOMAIN m) \cup {k} |-> IF x = k THEN v ELSE m[x]]
MapDelete(m, k) == [x \in (DOMAIN m) \ {k} |-> m[x]]

----------------------------------------------------------------------------
(* Inputs: Definitions, wrapped errors, Generators *)

FullType ==
    [LogLevel |-> LogLevelInfo, Status |-> 400, Title |-> "Def Title",
     TitleKey |-> "tk", URI |-> "def:type"]

FullDefinition ==
    [Code |-> "D-1", Detail |-> "def detail", DetailKey |-> "dk",
     Extensions |-> DefMap, Instance |-> "def/instance", Type |-> FullType]

ReservedDefinition ==
    [ZeroDefinition EXCEPT !.Extensions = DefReservedMap]

Definitions == {FullDefinition, ReservedDefinition}

\* a Problem as a previous resolution with FlagField|FlagLog would return it
InnerFull ==
    [kind |-> "problem", Code |-> "I-1", Detail |-> "inner detail",
     Extensions |-> InnerMap, Instance |-> "inner/instance",
     Stack |-> "inner stack", Status |-> 404, Title |-> "Inner Title",
     Type |-> "inner:type", UUID |-> "inner-uuid", err |-> NilErr,
     logInfo |-> [Level |-> LogLevelWarn, Stack |-> "inner stack", UUID |-> "inner-uuid"]]

\* a Problem carrying its stack and uuid for the logs only, built with
\* Extensions{} and nothing else
InnerLogOnly ==
    [ZeroProblem EXCEPT
        !.Extensions = InnerEmptyMap,
        !.logInfo = [Level |-> 0, Stack |-> "inner log stack", UUID |-> "inner-log-uuid"]]

Errors == {NilErr, PlainErr(NilErr), InnerFull, PlainErr(InnerLogOnly)}

\* the Translator of the model knows these keys; every other key (nil included)
\* has no localized value
Translate(key) ==
    CASE key = "bdk" -> "T(bdk)"
      [] key = "btk" -> "T(btk)"
      [] key = "dk" -> "T(dk)"
      [] key = "tk" -> "T(tk)"
      [] OTHER -> ""

DetailKeys == {"bdk", "miss"}
TitleKeys == {"btk", "miss"}

\* Typer / LogLeveler functions of the model
Typer(fn, defType) ==
    CASE fn = "empty" -> ""
      [] fn = "status" -> IF defType.Status = 400 THEN "typer:400" ELSE defType.URI

LogLeveler(fn, defType) ==
    CASE fn = "zero" -> 0
      [] fn = "status" -> IF defType.Status = 0 THEN defType.LogLevel ELSE LogLevelWarn

\* DefaultGenerator: the zero value
DefaultGenerator ==
    [Translator |-> NilFn, Typer |-> NilFn, LogLeveler |-> NilFn,
     StackFlag |-> FlagDisable, UUIDFlag |-> FlagDisable,
     Unwrapper |-> NilFn, UUIDGenerator |-> NilFn,
     CodeNSValidator |-> NilNSValidator, CodeSeparator |-> NoRune, CodeValueLen |-> 0]

\* a Generator with only a Translator
TranslatingGenerator == [DefaultGenerator EXCEPT !.Translator = "fn"]

\* the Generators of the resolution of the scalar fields
Generators ==
    { DefaultGenerator,
      TranslatingGenerator,
      [TranslatingGenerator EXCEPT !.Typer = "empty", !.LogLeveler = "zero",
          !.StackFlag = 3, !.Unwrapper = "full"],
      [TranslatingGenerator EXCEPT !.Typer = "status", !.LogLeveler = "status",
          !.UUIDFlag = FlagLog, !.Unwrapper = "noop"] }

\* the Generators of the resolution of the extensions
ExtGenerators ==
    { TranslatingGenerator,
      [TranslatingGenerator EXCEPT !.Unwrapper = "full"] }

\* the Generators of the flag-gated stack trace and UUID
FlagGenerators ==
    { TranslatingGenerator,
      [TranslatingGenerator EXCEPT !.StackFlag = 3, !.UUIDFlag = 3, !.Unwrapper = "full"],
      [TranslatingGenerator EXCEPT !.StackFlag = FlagField, !.UUIDFlag = FlagLog,
          !.Unwrapper = "noop"],
      [TranslatingGenerator EXCEPT !.StackFlag = FlagLog, !.UUIDFlag = FlagField,
          !.Unwrapper = "propagated"] }


----------------------------------------------------------------------------
(* Unwrapping *)

\* an error that unwraps to several errors (errors.Join, fmt.Errorf with
\* more than one %w), none of them nil
JoinErr(errs) == [kind |-> "join", errs |-> errs]

\* errors.As with a *Problem target: the first Problem of err's tree in
\* depth-first order
RECURSIVE As(_), AsAny(_)
As(err) ==
    CASE err.kind = "nil" -> [p |-> ZeroProblem, isProblem |-> FALSE]
      [] err.kind = "problem" -> [p |-> err, isProblem |-> TRUE]
      [] err.kind = "plain" -> As(err.next)
      [] err.kind = "join" -> AsAny(err.errs)

AsAny(errs) ==
    IF errs = <<>> THEN [p |-> ZeroProblem, isProblem |-> FALSE]
    ELSE LET r == As(Head(errs)) IN IF r.isProblem THEN r ELSE AsAny(Tail(errs))

unwrapAllFields(err) ==
    LET r == As(err) IN IF r.isProblem THEN r.p ELSE ZeroProblem

\* unwrapPropagatedFields taking the code of the wrapped Problem as well
unwrapPropagatedFieldsAndCode(err) ==
    LET r == As(err) IN
    IF r.isProblem
    THEN [ZeroProblem EXCEPT !.Code = r.p.Code, !.Stack = r.p.Stack, !.UUID = r.p.UUID,
                             !.logInfo = r.p.logInfo]
    ELSE ZeroProblem

unwrapPropagatedFields(err) ==
    LET r == As(err) IN
    IF r.isProblem
    THEN [ZeroProblem EXCEPT !.Stack = r.p.Stack, !.UUID = r.p.UUID, !.logInfo = r.p.logInfo]
    ELSE ZeroProblem

NoopUnwrapper(err) == ZeroProblem

\* an Unwrapper function value applied to err
ApplyUnwrapper(u, err) ==
    CASE u = "noop" -> NoopUnwrapper(err)
      [] u = "propagated" -> unwrapPropagatedFields(err)
      [] u = "full" -> unwrapAllFields(err)

Unwrappers == {"noop", "propagated", "full"}

----------------------------------------------------------------------------
(* Matching *)

OperatorEquals == 0
OperatorNotEquals == 1
OperatorGreaterThan == 2
OperatorGreaterThanOrEqual == 3
OperatorLessThan == 4
OperatorLessThanOrEqual == 5

\* operate on two integers; an invalid op panics (not modelled: never passed)
operate(op, probValue, otherValue) ==
    CASE op = OperatorEquals -> probValue = otherValue
      [] op = OperatorNotEquals -> probValue # otherValue
      [] op = OperatorGreaterThan -> probValue > otherValue
      [] op = OperatorGreaterThanOrEqual -> probValue >= otherValue
      [] op = OperatorLessThan -> probValue < otherValue
      [] op = OperatorLessThanOrEqual -> probValue <= otherValue

operatorOrDefault(op) == IF Len(op) > 0 THEN op[1] ELSE OperatorEquals

\* the Matcher function values
HasStatus(status, operator) ==
    [kind |-> "HasStatus", status |-> status, op |-> operatorOrDefault(operator)]
HasStack == [kind |-> "HasStack", status |-> 0, op |-> OperatorEquals]

\* calling Matcher m with Problem p
CallMatcher(m, p) ==
    CASE m.kind = "HasStatus" -> operate(m.op, p.Status, m.status)
      [] m.kind = "HasStack" -> p.Stack # ""

\* Match tolerating one failed matcher
MatchAllButOne(p, matchers) ==
    Cardinality({i \in 1..Len(matchers) : ~CallMatcher(matchers[i], p)}) <= 1

Match(p, matchers) ==
    Len(matchers) > 0 => \A i \in 1..Len(matchers) : CallMatcher(matchers[i], p)

\* Problem.Unwrap
Unwrap(p) == p.err

\* the nil *Problem
NilProblem == [kind |-> "nil"]

\* AsMatch giving up at the first Problem that does not match
AsMatchFirstOnly(err, matchers) ==
    IF err.kind = "nil" THEN [p |-> NilProblem, found |-> FALSE]
    ELSE LET r == As(err) IN
         IF r.isProblem /\ Match(r.p, matchers) THEN [p |-> r.p, found |-> TRUE]
         ELSE [p |-> NilProblem, found |-> FALSE]

RECURSIVE AsMatch(_, _)
AsMatch(err, matchers) ==
    IF err.kind = "nil" THEN [p |-> NilProblem, found |-> FALSE]
    ELSE LET r == As(err) IN
         IF ~r.isProblem THEN [p |-> NilProblem, found |-> FALSE]
         ELSE IF Match(r.p, matchers) THEN [p |-> r.p, found |-> TRUE]
         ELSE AsMatch(Unwrap(r.p), matchers)

IsMatch(err, matchers) == AsMatch(err, matchers).found

----------------------------------------------------------------------------
(* Code codec: a Code, an NS and a value string are sequences of characters *)

Digits == <<"0", "1", "2", "3", "4", "5", "6", "7", "8", "9">>

\* strconv.FormatUint(value, 10)
RECURSIVE FormatUint(_)
FormatUint(value) ==
    IF value < 10 THEN <<Digits[value + 1]>>
    ELSE FormatUint(value \div 10) \o <<Digits[(value % 10) + 1]>>

\* strconv.ParseUint(s, 10, 0) with the digits read so far making up acc
RECURSIVE ParseUintFrom(_, _)
ParseUintFrom(str, acc) ==
    IF str = <<>> THEN [val |-> acc, err |-> "nil"]
    ELSE IF \E d \in 1..10 : Digits[d] = Head(str)
    THEN ParseUintFrom(Tail(str), 10 * acc + (CHOOSE d \in 1..10 : Digits[d] = Head(str)) - 1)
    ELSE [val |-> 0, err |-> "ErrSyntax"]

ParseUint(str) ==
    IF str = <<>> THEN [val |-> 0, err |-> "ErrSyntax"] ELSE ParseUintFrom(str, 0)

\* LenNSValidator(min, max) called with ns
LenNSValidator(v, ns) ==
    IF v.min < 1 \/ v.max < v.min \/ Len(ns) < v.min \/ Len(ns) > v.max
    THEN "error" ELSE "nil"

IsPrint(r) == r # BellRune

codeSeparator(g) ==
    IF g.CodeSeparator = NoRune THEN [sep |-> DefaultCodeSeparator, err |-> "nil"]
    ELSE IF IsPrint(g.CodeSeparator) THEN [sep |-> g.CodeSeparator, err |-> "nil"]
    ELSE [sep |-> g.CodeSeparator, err |-> "ErrCode"]

\* validateCodeNS returning the error of the NSValidator as it is
validateCodeNSUnwrapped(g, ns, sep) ==
    IF ns = <<>> THEN "ErrCode"
    ELSE IF \E i \in 1..Len(ns) : ns[i] = sep THEN "ErrCode"
    ELSE IF g.CodeNSValidator.fn # NilFn
    THEN LenNSValidator(g.CodeNSValidator, ns)
    ELSE "nil"

\* an error returned by the NSValidator is wrapped under ErrCode
validateCodeNS(g, ns, sep) ==
    IF ns = <<>> THEN "ErrCode"
    ELSE IF \E i \in 1..Len(ns) : ns[i] = sep THEN "ErrCode"
    ELSE IF g.CodeNSValidator.fn # NilFn /\ LenNSValidator(g.CodeNSValidator, ns) # "nil"
    THEN "ErrCode"
    ELSE "nil"

validateCodeValue(g, value) ==
    IF value = <<>> THEN "ErrCode"
    ELSE IF g.CodeValueLen > 0 /\ Len(value) > g.CodeValueLen THEN "ErrCode"
    ELSE "nil"

\* Generator.Coder
Coder(g, ns) == [Generator |-> g, NS |-> ns]

\* suffix with "0" appended while it is shorter than vl
RECURSIVE PadRight(_, _)
PadRight(suffix, vl) ==
    IF Len(suffix) < vl THEN PadRight(suffix \o <<"0">>, vl) ELSE suffix

\* suffix with "0" put in front while it is shorter than vl
RECURSIVE PadLeft(_, _)
PadLeft(suffix, vl) ==
    IF Len(suffix) < vl THEN PadLeft(<<"0">> \o suffix, vl) ELSE suffix

\* Coder.Build padding the value on the left
BuildPaddedLeft(c, value) ==
    LET g == c.Generator
        s == codeSeparator(g)
        suffix == FormatUint(value)
    IN IF s.err # "nil" THEN [code |-> <<>>, err |-> s.err]
       ELSE IF validateCodeValue(g, suffix) # "nil"
       THEN [code |-> <<>>, err |-> validateCodeValue(g, suffix)]
       ELSE IF validateCodeNS(g, c.NS, s.sep) # "nil"
       THEN [code |-> <<>>, err |-> validateCodeNS(g, c.NS, s.sep)]
       ELSE [code |-> c.NS \o <<s.sep>> \o PadLeft(suffix, g.CodeValueLen), err |-> "nil"]

\* Coder.Build
Build(c, value) ==
    LET g == c.Generator
        s == codeSeparator(g)
        suffix == FormatUint(value)
        padded == IF g.CodeValueLen > 0 THEN PadRight(suffix, g.CodeValueLen) ELSE suffix
    IN IF s.err # "nil" THEN [code |-> <<>>, err |-> s.err]
       ELSE IF validateCodeValue(g, suffix) # "nil"
       THEN [code |-> <<>>, err |-> validateCodeValue(g, suffix)]
       ELSE IF validateCodeNS(g, c.NS, s.sep) # "nil"
       THEN [code |-> <<>>, err |-> validateCodeNS(g, c.NS, s.sep)]
       ELSE [code |-> c.NS \o <<s.sep>> \o padded, err |-> "nil"]

\* the index of the last sep in code, 0 if there is none
LastIndex(code, sep) ==
    IF \E i \in 1..Len(code) : code[i] = sep
    THEN CHOOSE i \in 1..Len(code) : code[i] = sep /\ \A j \in (i + 1)..Len(code) : code[j] # sep
    ELSE 0

\* the index of the first sep in code, 0 if there is none
FirstIndex(code, sep) ==
    IF \E i \in 1..Len(code) : code[i] = sep
    THEN CHOOSE i \in 1..Len(code) : code[i] = sep /\ \A j \in 1..(i - 1) : code[j] # sep
    ELSE 0

\* Coder.Parse
Parse(c, code) ==
    LET g == c.Generator
        s == codeSeparator(g)
        at == FirstIndex(code, s.sep)
        ns == SubSeq(code, 1, at - 1)
        valStr == SubSeq(code, at + 1, Len(code))
        parsed == ParseUint(valStr)
        pc == [Code |-> code, NS |-> <<>>, Value |-> 0]
    IN IF s.err # "nil" THEN [pc |-> pc, err |-> s.err]
       ELSE IF at = 0 THEN [pc |-> pc, err |-> "ErrCode"]
       ELSE IF validateCodeNS(g, ns, s.sep) # "nil"
       THEN [pc |-> [pc EXCEPT !.NS = ns], err |-> validateCodeNS(g, ns, s.sep)]
       ELSE IF c.NS # <<>> /\ c.NS # ns
       THEN [pc |-> [pc EXCEPT !.NS = ns], err |-> "ErrCode"]
       ELSE IF validateCodeValue(g, valStr) # "nil"
       THEN [pc |-> [pc EXCEPT !.NS = ns], err |-> validateCodeValue(g, valStr)]
       ELSE [pc |-> [pc EXCEPT !.NS = ns, !.Value = parsed.val],
             err |-> IF parsed.err # "nil" THEN "ErrCode" ELSE "nil"]

\* Coder.Validate
Validate(c, code) == Parse(c, code).err

\* Coder.ValidateNS
ValidateNS(c, ns) ==
    LET s == codeSeparator(c.Generator) IN
    IF s.err # "nil" THEN s.err ELSE validateCodeNS(c.Generator, ns, s.sep)

\* Coder.ValidateValue
ValidateValue(c, value) == validateCodeValue(c.Generator, FormatUint(value))

\* the Matcher HasCodeNSUsing(gen, ns, operator...) returns, called with p
HasCodeNSUsing(g, ns, operator, p) ==
    LET r == Parse(Coder(g, <<>>), p.Code) IN
    r.err # "nil" /\ operate(operatorOrDefault(operator), r.pc.NS, ns)

HasCodeNS(ns, operator, p) == HasCodeNSUsing(DefaultGenerator, ns, operator, p)

\* the Matcher HasCodeValueUsing(gen, value, operator...) returns, called with p
HasCodeValueUsing(g, value, operator, p) ==
    LET r == Parse(Coder(g, <<>>), p.Code) IN
    r.err # "nil" /\ operate(operatorOrDefault(operator), r.pc.Value, value)

HasCodeValue(value, operator, p) == HasCodeValueUsing(DefaultGenerator, value, operator, p)

----------------------------------------------------------------------------
(* Generator helpers *)

\* calling a Translator function value; calling the nil function panics
CallTranslator(t, key) ==
    IF t = NilFn THEN [panic |-> TRUE, v |-> ""]
    ELSE [panic |-> FALSE, v |-> Translate(key)]

translateOrElse(g, key, defaultValue) ==
    IF g.Translator # NilFn
    THEN [panic |-> FALSE, v |-> defaultValue]
    ELSE LET r == CallTranslator(g.Translator, key) IN
         IF r.panic THEN r
         ELSE IF r.v # "" THEN r
         ELSE [panic |-> FALSE, v |-> defaultValue]

\* typeURI falling through to Type.URI when the Typer returns nothing
typeURIOrTypeURI(g, defType) ==
    IF g.Typer # NilFn /\ Typer(g.Typer, defType) # "" THEN Typer(g.Typer, defType)
    ELSE defType.URI

typeURI(g, defType) ==
    IF g.Typer # NilFn THEN Typer(g.Typer, defType) ELSE defType.URI

\* logLevel falling through to Type.LogLevel when the LogLeveler returns zero
logLevelOrTypeLevel(g, defType) ==
    IF g.LogLeveler # NilFn /\ LogLeveler(g.LogLeveler, defType) # 0
    THEN LogLeveler(g.LogLeveler, defType)
    ELSE defType.LogLevel

logLevel(g, defType) ==
    IF g.LogLeveler # NilFn THEN LogLeveler(g.LogLeveler, defType) ELSE defType.LogLevel

\* the values of the collaborators: the n-th captured stack trace and the
\* n-th generated UUID
Captured == <<"captured#1", "captured#2", "captured#3", "captured#4", "captured#5", "captured#6", "captured#7", "captured#8">>
Generated == <<"uuid#1", "uuid#2", "uuid#3", "uuid#4", "uuid#5", "uuid#6", "uuid#7", "uuid#8">>

\* frames of the caller of Builder.Problem(), and the frames between
\* stack.Take and that caller
CallDepth == 3
InternalFrames == 4

\* stack.Take(skip) as its n-th invocation: empty when skip leaves no frame
Take(skip, n) ==
    IF skip >= InternalFrames + CallDepth THEN "" ELSE Captured[n]

\* Generator.uuid as its n-th invocation
uuid(g, n) ==
    IF g.UUIDGenerator = NilFn THEN Generated[n] ELSE ""

----------------------------------------------------------------------------
(* Builder *)

\* Generator.Build: a Builder with nothing set
NewBuilder ==
    [code |-> "", def |-> ZeroDefinition, detail |-> "", detailKey |-> "",
     err |-> NilErr, extensions |-> NilMap, instanceURI |-> "", logLevel |-> 0,
     problem |-> ZeroProblem, stack |-> "", stackFlag |-> Empty,
     stackFramesSkipped |-> 0, status |-> 0, title |-> "", titleKey |-> "",
     typeURI |-> "", uuid |-> "", uuidFlag |-> Empty]

\* firstNonZeroValue scanning from the wrong end
RECURSIVE lastNonZeroValue(_, _)
lastNonZeroValue(values, zero) ==
    IF values = <<>> THEN zero
    ELSE IF values[Len(values)] # zero THEN values[Len(values)]
    ELSE lastNonZeroValue(SubSeq(values, 1, Len(values) - 1), zero)

RECURSIVE firstNonZeroValue(_, _)
firstNonZeroValue(values, zero) ==
    IF values = <<>> THEN zero
    ELSE IF Head(values) # zero THEN Head(values)
    ELSE firstNonZeroValue(Tail(values), zero)

RECURSIVE firstNonNilMap(_)
firstNonNilMap(maps) ==
    IF maps = <<>> THEN NilMap
    ELSE IF Head(maps) # NilMap THEN Head(maps)
    ELSE firstNonNilMap(Tail(maps))

validationExtensionKey(key) ==
    IF key = "" THEN "errExtensionKeyEmpty"
    ELSE IF key \in reservedExtensions THEN "errExtensionKeyReserved"
    ELSE "nil"

\* the entries of m restricted to the keys in ks written into map value t
RECURSIVE PutAll(_, _, _)
PutAll(t, m, ks) ==
    IF ks = {} THEN t
    ELSE LET k == CHOOSE x \in ks : TRUE IN PutAll(MapPut(t, k, m[k]), m, ks \ {k})

\* maps.Clone: nil stays nil, any other map is copied into a new map object
MapsClone(h, r) ==
    IF r = NilMap THEN [heap |-> h, ref |-> NilMap]
    ELSE [heap |-> Append(h, h[r]), ref |-> Len(h) + 1]

buildCode(bb) == firstNonZeroValue(<<bb.code, bb.problem.Code, bb.def.Code>>, "")

buildDetail(g, bb) ==
    LET v == translateOrElse(g, bb.detailKey, bb.detail) IN
    IF v.panic \/ v.v # "" THEN v
    ELSE IF bb.problem.Detail # "" THEN [panic |-> FALSE, v |-> bb.problem.Detail]
    ELSE translateOrElse(g, bb.def.DetailKey, bb.def.Detail)

\* buildExtensions returning the chosen map itself instead of a clone
buildExtensionsAliased(h, bb) ==
    [heap |-> h,
     ref |-> firstNonNilMap(<<bb.extensions, bb.problem.Extensions, bb.def.Extensions>>)]

\* buildExtensions copying the entries of the Definition into the map of the
\* wrapped Problem before it clones the winning map
buildExtensionsMergingInPlace(h, bb) ==
    LET p == bb.problem.Extensions
        d == bb.def.Extensions
        h1 == IF p # NilMap /\ d # NilMap
              THEN [h EXCEPT ![p] = PutAll(h[p], h[d], DOMAIN h[d])]
              ELSE h
    IN MapsClone(h1, firstNonNilMap(<<bb.extensions, p, d>>))

buildExtensions(h, bb) ==
    MapsClone(h, firstNonNilMap(<<bb.extensions, bb.problem.Extensions, bb.def.Extensions>>))

buildInstance(bb) ==
    firstNonZeroValue(<<bb.instanceURI, bb.problem.Instance, bb.def.Instance>>, "")

buildStatus(bb) ==
    firstNonZeroValue(<<bb.status, bb.problem.Status, bb.def.Type.Status, StatusInternalServerError>>, 0)

\* buildTitle without the final DefaultTitle
buildTitleNoDefault(g, bb) ==
    LET v == translateOrElse(g, bb.titleKey, bb.title) IN
    IF v.panic \/ v.v # "" THEN v
    ELSE IF bb.problem.Title # "" THEN [panic |-> FALSE, v |-> bb.problem.Title]
    ELSE translateOrElse(g, bb.def.Type.TitleKey, bb.def.Type.Title)

buildTitle(g, bb) ==
    LET v == translateOrElse(g, bb.titleKey, bb.title) IN
    IF v.panic \/ v.v # "" THEN v
    ELSE IF bb.problem.Title # "" THEN [panic |-> FALSE, v |-> bb.problem.Title]
    ELSE LET w == translateOrElse(g, bb.def.Type.TitleKey, bb.def.Type.Title) IN
         IF w.panic \/ w.v # "" THEN w
         ELSE [panic |-> FALSE, v |-> DefaultTitle]

buildType(g, bb) ==
    firstNonZeroValue(<<bb.typeURI, bb.problem.Type, typeURI(g, bb.def.Type), DefaultTypeURI>>, "")

\* getStack never reading or filling the Builder's cache
getStackUncached(bb, skip, calls) ==
    IF bb.problem.Stack # "" THEN [v |-> bb.problem.Stack, b |-> bb, calls |-> calls]
    ELSE IF bb.problem.logInfo.Stack # ""
    THEN [v |-> bb.problem.logInfo.Stack, b |-> bb, calls |-> calls]
    ELSE [v |-> Take((IF bb.stackFramesSkipped > 0 THEN skip + bb.stackFramesSkipped ELSE skip) + 1,
                     calls + 1),
          b |-> bb, calls |-> calls + 1]

\* getStack: the cached, else inherited, else captured stack trace; calls is
\* the number of stack.Take invocations made so far
getStack(bb, skip, calls) ==
    IF bb.stack # "" THEN [v |-> bb.stack, b |-> bb, calls |-> calls]
    ELSE LET v ==
                IF bb.problem.Stack # "" THEN bb.problem.Stack
                ELSE IF bb.problem.logInfo.Stack # "" THEN bb.problem.logInfo.Stack
                ELSE Take((IF bb.stackFramesSkipped > 0 THEN skip + bb.stackFramesSkipped ELSE skip) + 1,
                          calls + 1)
             taken == bb.problem.Stack = "" /\ bb.problem.logInfo.Stack = ""
         IN [v |-> v, b |-> [bb EXCEPT !.stack = v],
             calls |-> IF taken THEN calls + 1 ELSE calls]

\* getUUID never reading or filling the Builder's cache
getUUIDUncached(g, bb, calls) ==
    IF bb.problem.UUID # "" THEN [v |-> bb.problem.UUID, b |-> bb, calls |-> calls]
    ELSE IF bb.problem.logInfo.UUID # ""
    THEN [v |-> bb.problem.logInfo.UUID, b |-> bb, calls |-> calls]
    ELSE [v |-> uuid(g, calls + 1), b |-> bb, calls |-> calls + 1]

getUUID(g, bb, calls) ==
    IF bb.uuid # "" THEN [v |-> bb.uuid, b |-> bb, calls |-> calls]
    ELSE LET v ==
                IF bb.problem.UUID # "" THEN bb.problem.UUID
                ELSE IF bb.problem.logInfo.UUID # "" THEN bb.problem.logInfo.UUID
                ELSE uuid(g, calls + 1)
             generated == bb.problem.UUID = "" /\ bb.problem.logInfo.UUID = ""
         IN [v |-> v, b |-> [bb EXCEPT !.uuid = v],
             calls |-> IF generated THEN calls + 1 ELSE calls]

buildStack(g, bb, skipStackFrames, calls) ==
    IF checkFlag(OrElse(bb.stackFlag, g.StackFlag), FlagField)
    THEN getStack(bb, skipStackFrames + 1, calls)
    ELSE [v |-> "", b |-> bb, calls |-> calls]

buildUUID(g, bb, calls) ==
    IF checkFlag(OrElse(bb.uuidFlag, g.UUIDFlag), FlagField)
    THEN getUUID(g, bb, calls)
    ELSE [v |-> "", b |-> bb, calls |-> calls]

\* buildLogInfo: the level, then the log-only stack, then the log-only uuid
buildLogInfo(g, bb, skipStackFrames, sCalls, uCalls) ==
    LET level == firstNonZeroValue(<<bb.logLevel, bb.problem.logInfo.Level, logLevel(g, bb.def.Type)>>, 0)
        s == IF checkFlag(OrElse(bb.stackFlag, g.StackFlag), FlagLog)
             THEN getStack(bb, skipStackFrames + 1, sCalls)
             ELSE [v |-> "", b |-> bb, calls |-> sCalls]
        u == IF checkFlag(OrElse(s.b.uuidFlag, g.UUIDFlag), FlagLog)
             THEN getUUID(g, s.b, uCalls)
             ELSE [v |-> "", b |-> s.b, calls |-> uCalls]
    IN [info |-> [Level |-> level, Stack |-> s.v, UUID |-> u.v],
        b |-> u.b, sCalls |-> s.calls, uCalls |-> u.calls]

\* build: the fields of the Problem literal are evaluated in source order; a
\* panic of the Translator call leaves what was done before it
build(g, bb, h, skipStackFrames0, sCalls, uCalls) ==
    LET skipStackFrames == skipStackFrames0 + 1
        code == buildCode(bb)
        detail == buildDetail(g, bb)
        ext == buildExtensions(h, bb)
        instance == buildInstance(bb)
        stack == buildStack(g, bb, skipStackFrames, sCalls)
        status == buildStatus(stack.b)
        title == buildTitle(g, stack.b)
        type == buildType(g, stack.b)
        uu == buildUUID(g, stack.b, uCalls)
        info == buildLogInfo(g, uu.b, skipStackFrames, stack.calls, uu.calls)
    IN
    IF detail.panic
    THEN [prob |-> Fault, b |-> bb, heap |-> h, sCalls |-> sCalls, uCalls |-> uCalls]
    ELSE IF title.panic
    THEN [prob |-> Fault, b |-> stack.b, heap |-> ext.heap, sCalls |-> stack.calls, uCalls |-> uCalls]
    ELSE [prob |-> [kind |-> "problem", Code |-> code, Detail |-> detail.v,
                    Extensions |-> ext.ref, Instance |-> instance, Stack |-> stack.v,
                    Status |-> status, Title |-> title.v, Type |-> type,
                    UUID |-> uu.v, err |-> info.b.err, logInfo |-> info.info],
          b |-> info.b, heap |-> ext.heap, sCalls |-> info.sCalls, uCalls |-> info.uCalls]

\* Problem.LogInfo
LogInfo(p) ==
    IF p.logInfo.Level = 0 THEN [p.logInfo EXCEPT !.Level = DefaultLogLevel] ELSE p.logInfo


----------------------------------------------------------------------------
(* Operations *)

\* Definition.BuildUsing: a Builder with only its Definition set
BuildUsing(def) == [NewBuilder EXCEPT !.def = def]

\* the Builder is created by Generator.Build or by Definition.BuildUsing
InitWith(generators) ==
    /\ gen \in generators
    /\ b \in {NewBuilder} \cup {BuildUsing(def) : def \in Definitions}
    /\ heap = InitHeap
    /\ prob = NoResult
    /\ act = "Build"
    /\ stackCalls = 0
    /\ uuidCalls = 0
    /\ nSet = 0
    /\ nBuild = 0
    /\ call = NoCall
    /\ ret = NoCall

Init == InitWith(Generators)
InitExt == InitWith(ExtGenerators)
InitFlag == InitWith(FlagGenerators)

\* what every Builder setter that only assigns fields of the Builder shares
SetterCall ==
    /\ nSet < MaxSetterCalls
    /\ act' = "Set"
    /\ nSet' = nSet + 1
    /\ UNCHANGED <<gen, heap, prob, stackCalls, uuidCalls, nBuild, call, ret>>

Code ==
    /\ b' = [b EXCEPT !.code = "B-1"]
    /\ SetterCall

Definition ==
    \E def \in Definitions :
        /\ b' = [b EXCEPT !.def = def]
        /\ SetterCall

DefinitionType ==
    /\ b' = [b EXCEPT !.def.Type = [ZeroType EXCEPT !.Title = "Type Title", !.URI = "type:uri",
                                                    !.LogLevel = LogLevelDebug]]
    /\ SetterCall

Detail ==
    /\ b' = [b EXCEPT !.detail = "builder detail"]
    /\ SetterCall

DetailKey ==
    \E key \in DetailKeys :
        /\ b' = [b EXCEPT !.detailKey = key]
        /\ SetterCall

\* the option WithDetailKeyOrElse(key, detail): DetailKey(key).Detail(detail)
WithDetailKeyOrElse ==
    \E key \in DetailKeys :
        /\ b' = [b EXCEPT !.detailKey = key, !.detail = "builder detail"]
        /\ SetterCall

Instance ==
    /\ b' = [b EXCEPT !.instanceURI = "builder/instance"]
    /\ SetterCall

LogLevel ==
    /\ b' = [b EXCEPT !.logLevel = LogLevelDebug]
    /\ SetterCall

Status ==
    /\ b' = [b EXCEPT !.status = 422]
    /\ SetterCall

Title ==
    /\ b' = [b EXCEPT !.title = "Builder Title"]
    /\ SetterCall

TitleKey ==
    \E key \in TitleKeys :
        /\ b' = [b EXCEPT !.titleKey = key]
        /\ SetterCall

\* the option WithTitleKeyOrElse(key, title): TitleKey(key).Title(title)
WithTitleKeyOrElse ==
    \E key \in TitleKeys :
        /\ b' = [b EXCEPT !.titleKey = key, !.title = "Builder Title"]
        /\ SetterCall

Type ==
    /\ b' = [b EXCEPT !.typeURI = "builder:type"]
    /\ SetterCall

FlagLists ==
    {<<>>, <<FlagDisable>>, <<FlagField>>, <<FlagLog>>, <<FlagField, FlagLog>>,
     <<FlagLog, FlagDisable>>}

Stack ==
    \E flags \in FlagLists :
        /\ b' = [b EXCEPT !.stackFlag = resolveFlag(flags)]
        /\ SetterCall

UUID ==
    \E flags \in FlagLists :
        /\ b' = [b EXCEPT !.uuidFlag = resolveFlag(flags)]
        /\ SetterCall

StackFramesSkipped ==
    \E skipped \in {1, CallDepth} :
        /\ b' = [b EXCEPT !.stackFramesSkipped = skipped]
        /\ SetterCall

\* Wrap(err) and Wrap(err, unwrapper): the Unwrapper of the call, else of the
\* Generator, else unwrapPropagatedFields
Unwrapped(g, err, unwrapper) ==
    LET u0 == IF unwrapper # NilFn THEN unwrapper ELSE g.Unwrapper
        u == IF u0 = NilFn THEN "propagated" ELSE u0
    IN ApplyUnwrapper(u, err)

Wrap ==
    \E err \in Errors, unwrapper \in Unwrappers \cup {NilFn} :
        /\ b' = [b EXCEPT !.err = err, !.problem = Unwrapped(gen, err, unwrapper)]
        /\ SetterCall

\* Builder.Reset leaving the cached stack trace and uuid in place
resetKeepingCaches(bb) ==
    [bb EXCEPT !.code = "", !.def = ZeroDefinition, !.detail = "", !.detailKey = "",
               !.err = NilErr, !.extensions = NilMap, !.instanceURI = "", !.logLevel = 0,
               !.problem = ZeroProblem, !.stackFlag = Empty,
               !.stackFramesSkipped = 0, !.status = 0, !.title = "", !.titleKey = "",
               !.typeURI = "", !.uuidFlag = Empty]

\* the assignments of Builder.Reset; the Generator and the context are retained
reset(bb) ==
    [bb EXCEPT !.code = "", !.def = ZeroDefinition, !.detail = "", !.detailKey = "",
               !.err = NilErr, !.extensions = NilMap, !.instanceURI = "", !.logLevel = 0,
               !.problem = ZeroProblem, !.stack = "", !.stackFlag = Empty,
               !.stackFramesSkipped = 0, !.status = 0, !.title = "", !.titleKey = "",
               !.typeURI = "", !.uuid = "", !.uuidFlag = Empty]

Reset ==
    /\ nSet < MaxSetterCalls
    /\ b' = reset(b)
    /\ act' = "Reset"
    /\ nSet' = nSet + 1
    /\ UNCHANGED <<gen, heap, prob, stackCalls, uuidCalls, nBuild, call, ret>>

ExtensionKeys == {"k1", "k2", "", "code"}

\* Extension(key, value) on Builder bb: the map is allocated before the key is
\* validated, so a panic leaves a newly allocated empty map behind
extension(bb, h, key, value) ==
    LET h1 == IF bb.extensions = NilMap THEN Append(h, EmptyMapValue) ELSE h
        r == IF bb.extensions = NilMap THEN Len(h) + 1 ELSE bb.extensions
    IN IF validationExtensionKey(key) # "nil"
       THEN [b |-> [bb EXCEPT !.extensions = r], heap |-> h1, act |-> "Panic"]
       ELSE [b |-> [bb EXCEPT !.extensions = r],
             heap |-> [h1 EXCEPT ![r] = MapPut(h1[r], key, value)], act |-> "Set"]

Extension ==
    \E key \in ExtensionKeys, value \in {7} :
        /\ nSet < MaxSetterCalls
        /\ LET r == extension(b, heap, key, value) IN
               /\ heap' = r.heap
               /\ b' = r.b
               /\ act' = r.act
        /\ nSet' = nSet + 1
        /\ UNCHANGED <<gen, prob, stackCalls, uuidCalls, nBuild, call, ret>>

\* the outcomes of Extensions(extensions) on Builder bb: Go ranges over the map
\* in an unspecified order, so any set of valid keys may have been copied when
\* an invalid key panics
extensions(bb, h, arg) ==
    IF MapLen(h, arg) = 0
    THEN {[b |-> [bb EXCEPT !.extensions = NilMap], heap |-> h, act |-> "Set"]}
    ELSE LET h1 == IF bb.extensions = NilMap THEN Append(h, EmptyMapValue) ELSE h
             r == IF bb.extensions = NilMap THEN Len(h) + 1 ELSE bb.extensions
             m == h[arg]
             valid == {k \in DOMAIN m : validationExtensionKey(k) = "nil"}
         IN IF valid = DOMAIN m
            THEN {[b |-> [bb EXCEPT !.extensions = r],
                   heap |-> [h1 EXCEPT ![r] = PutAll(h1[r], m, valid)], act |-> "Set"]}
            ELSE {[b |-> [bb EXCEPT !.extensions = r],
                   heap |-> [h1 EXCEPT ![r] = PutAll(h1[r], m, done)], act |-> "Panic"] :
                     done \in SUBSET valid}

Extensions ==
    \E arg \in {NilMap, ArgMap, ArgEmptyMap} :
        /\ nSet < MaxSetterCalls
        /\ \E r \in extensions(b, heap, arg) :
               /\ heap' = r.heap
               /\ b' = r.b
               /\ act' = r.act
        /\ nSet' = nSet + 1
        /\ UNCHANGED <<gen, prob, stackCalls, uuidCalls, nBuild, call, ret>>

\* Builder.Problem()
Problem ==
    /\ nBuild < MaxBuilds
    /\ LET r == build(gen, b, heap, 1, stackCalls, uuidCalls) IN
        /\ prob' = r.prob
        /\ b' = r.b
        /\ heap' = r.heap
        /\ stackCalls' = r.sCalls
        /\ uuidCalls' = r.uCalls
    /\ act' = "Problem"
    /\ nBuild' = nBuild + 1
    /\ UNCHANGED <<gen, nSet, call, ret>>

MutationKeys == {"k1"}

\* the caller adds, changes or removes an entry of a map it holds
Mutate(r, name) ==
    /\ nSet < MaxSetterCalls
    /\ \E k \in MutationKeys :
          \/ heap' = [heap EXCEPT ![r] = MapPut(heap[r], k, 8)]
          \/ /\ k \in DOMAIN heap[r]
             /\ heap' = [heap EXCEPT ![r] = MapDelete(heap[r], k)]
    /\ act' = name
    /\ nSet' = nSet + 1
    /\ UNCHANGED <<gen, b, prob, stackCalls, uuidCalls, nBuild, call, ret>>

\* ... of the map that is passed to Builder.Extensions, or of the map of the
\* wrapped Problem or of the Definition of the Builder
MutateSource ==
    /\ prob.kind = "problem"
    /\ \E r \in ({ArgMap, b.problem.Extensions, b.def.Extensions} \ {NilMap}) :
          Mutate(r, "MutateSource")

\* ... of the extensions of the Problem that was returned
MutateProblem ==
    /\ prob.kind = "problem"
    /\ prob.Extensions # NilMap
    /\ Mutate(prob.Extensions, "MutateProblem")

\* the setters of the scalar fields, of the Definition and of the wrapped error
FieldSetter ==
    \/ Code
    \/ Definition
    \/ DefinitionType
    \/ Detail
    \/ DetailKey
    \/ WithDetailKeyOrElse
    \/ Instance
    \/ LogLevel
    \/ Status
    \/ Title
    \/ TitleKey
    \/ WithTitleKeyOrElse
    \/ Type
    \/ Wrap
    \/ Reset

Next ==
    \/ FieldSetter
    \/ Problem

Spec == Init /\ [][Next]_vars

\* the extensions of the Builder, of the wrapped Problem and of the Definition,
\* with the caller changing the maps it holds
NextExt ==
    \/ Definition
    \/ Wrap
    \/ Extension
    \/ Extensions
    \/ Problem
    \/ MutateSource
    \/ MutateProblem

SpecExt == InitExt /\ [][NextExt]_vars

\* the stack trace and UUID flags, with wrapped errors to inherit from
NextFlag ==
    \/ Stack
    \/ UUID
    \/ StackFramesSkipped
    \/ Wrap
    \/ Reset
    \/ Problem

SpecFlag == InitFlag /\ [][NextFlag]_vars

\* the lazily filled caches of one Builder from its creation on (a Reset
\* returns the Builder to the state Generator.Build creates it in)
NextLazy ==
    \/ Stack
    \/ UUID
    \/ StackFramesSkipped
    \/ Wrap
    \/ Problem

SpecLazy == InitFlag /\ [][NextLazy]_vars

----------------------------------------------------------------------------
(* A Builder and its clone *)

\* Builder.Clone sharing the extension map with the original
CloneAliased(bb, h) == [b |-> bb, heap |-> h]

\* Builder.Clone: a copy of the struct with maps.Clone of the extensions
Clone(bb, h) ==
    LET c == MapsClone(h, bb.extensions) IN
    [b |-> [bb EXCEPT !.extensions = c.ref], heap |-> c.heap]

CloneGenerators ==
    { TranslatingGenerator,
      [TranslatingGenerator EXCEPT !.StackFlag = 3, !.UUIDFlag = 3, !.Unwrapper = "full"] }

InitClone == InitWith(CloneGenerators)

\* clone := b.Clone(); the clone is kept in call.b
CloneCall ==
    /\ call.fn = "none"
    /\ LET r == Clone(b, heap) IN
           /\ call' = [fn |-> "Clone", b |-> r.b]
           /\ heap' = r.heap
    /\ act' = "Clone"
    /\ UNCHANGED <<gen, b, prob, stackCalls, uuidCalls, nSet, nBuild, ret>>

\* a setter call on the clone that leaves it as Builder bb on heap h
OnClone(bb, h, name) ==
    /\ nSet < MaxSetterCalls
    /\ call' = [call EXCEPT !.b = bb]
    /\ heap' = h
    /\ act' = name
    /\ nSet' = nSet + 1
    /\ UNCHANGED <<gen, b, prob, stackCalls, uuidCalls, nBuild, ret>>

\* clone.Extension(key, value)
ExtensionOnClone ==
    /\ call.fn = "Clone"
    /\ \E key \in ExtensionKeys, value \in {7} :
          LET r == extension(call.b, heap, key, value) IN
          OnClone(r.b, r.heap, IF r.act = "Panic" THEN "ClonePanic" ELSE "CloneSet")

\* clone.Extensions(extensions)
ExtensionsOnClone ==
    /\ call.fn = "Clone"
    /\ \E arg \in {NilMap, ArgMap, ArgEmptyMap} :
          \E r \in extensions(call.b, heap, arg) :
              OnClone(r.b, r.heap, IF r.act = "Panic" THEN "ClonePanic" ELSE "CloneSet")

\* clone.Code(code)
CodeOnClone ==
    /\ call.fn = "Clone"
    /\ OnClone([call.b EXCEPT !.code = "C-2"], heap, "CloneSet")

\* clone.Wrap(err)
WrapOnClone ==
    /\ call.fn = "Clone"
    /\ \E err \in {InnerFull, PlainErr(NilErr)} :
          OnClone([call.b EXCEPT !.err = err, !.problem = Unwrapped(gen, err, NilFn)],
                  heap, "CloneSet")

NextClone ==
    \/ Code
    \/ Extension
    \/ Extensions
    \/ Problem
    \/ CloneCall
    \/ ExtensionOnClone
    \/ ExtensionsOnClone
    \/ CodeOnClone
    \/ WrapOnClone

SpecClone == InitClone /\ [][NextClone]_vars

----------------------------------------------------------------------------
(* Two Builders of one Generator and one Definition *)

\* both Builders are created from the same Generator and Definition; the
\* second one is kept in call.b and the Problem it returns in ret.prob
InitShared ==
    /\ gen \in CloneGenerators
    /\ b \in {NewBuilder} \cup {BuildUsing(def) : def \in Definitions}
    /\ heap = InitHeap
    /\ prob = NoResult
    /\ act = "Build"
    /\ stackCalls = 0
    /\ uuidCalls = 0
    /\ nSet = 0
    /\ nBuild = 0
    /\ call = [fn |-> "Build", b |-> b]
    /\ ret = [fn |-> "none", prob |-> NoResult]

\* Wrap(err) on the second Builder
WrapOnOther ==
    /\ call.fn = "Build"
    /\ nSet < MaxSetterCalls
    /\ \E err \in {InnerFull, InnerLogOnly} :
          call' = [call EXCEPT !.b = [call.b EXCEPT !.err = err,
                                                    !.problem = Unwrapped(gen, err, NilFn)]]
    /\ act' = "OtherSet"
    /\ nSet' = nSet + 1
    /\ UNCHANGED <<gen, b, heap, prob, stackCalls, uuidCalls, nBuild, ret>>

\* Problem() on the second Builder
ProblemOnOther ==
    /\ call.fn = "Build"
    /\ nBuild < MaxBuilds
    /\ LET r == build(gen, call.b, heap, 1, stackCalls, uuidCalls) IN
        /\ ret' = [fn |-> "Problem", prob |-> r.prob]
        /\ call' = [call EXCEPT !.b = r.b]
        /\ heap' = r.heap
        /\ stackCalls' = r.sCalls
        /\ uuidCalls' = r.uCalls
    /\ act' = "OtherProblem"
    /\ nBuild' = nBuild + 1
    /\ UNCHANGED <<gen, b, prob, nSet>>

NextShared ==
    \/ Wrap
    \/ Problem
    \/ WrapOnOther
    \/ ProblemOnOther

SpecShared == InitShared /\ [][NextShared]_vars

----------------------------------------------------------------------------
(* uri.Builder: a path is a sequence of characters in which ":id" stands for
   the placeholder of the path value named id *)

\* a nil *url.URL and the url.URL{} that url.Parse("") returns
NilURL == [nil |-> TRUE, Scheme |-> "", Host |-> "", Path |-> <<>>, Fragment |-> ""]
EmptyURL == [nil |-> FALSE, Scheme |-> "", Host |-> "", Path |-> <<>>, Fragment |-> ""]

\* nil, "", "https://example.com", "https://example.com/a/", "a" and "/a#top"
Bases ==
    { NilURL,
      EmptyURL,
      [EmptyURL EXCEPT !.Scheme = "https", !.Host = "example.com"],
      [EmptyURL EXCEPT !.Scheme = "https", !.Host = "example.com", !.Path = <<"/", "a", "/">>],
      [EmptyURL EXCEPT !.Path = <<"a">>],
      [EmptyURL EXCEPT !.Path = <<"/", "a">>, !.Fragment = "top"] }

URIPaths ==
    { <<>>, <<"/">>, <<"a">>, <<"/", "a">>, <<"/", "a", "/">>, <<"/", "a", "/", "/">>,
      <<"/", ":id">> }

\* a nil map of path values, and the map holding the value of id
NoPathValues == [set |-> FALSE, id |-> <<>>]
PathValueOf(v) == [set |-> TRUE, id |-> v]

\* uri.Build()
NewURIBuilder ==
    [fn |-> "uri", base |-> NilURL, fragment |-> "", path |-> <<>>,
     pathValues |-> NoPathValues, trailingSlash |-> Empty]

\* Builder.BaseURL: a copy of base without its fragment and query
BaseURL(bb, base) ==
    IF base.nil THEN [bb EXCEPT !.base = NilURL]
    ELSE [bb EXCEPT !.base = [base EXCEPT !.Fragment = ""]]

\* strings.NewReplacer(":id", value).Replace(path)
RECURSIVE ReplaceID(_, _)
ReplaceID(path, value) ==
    IF path = <<>> THEN <<>>
    ELSE (IF Head(path) = ":id" THEN value ELSE <<Head(path)>>) \o ReplaceID(Tail(path), value)

\* the trailing slash step of Builder.URL
enforceTrailingSlash(path, trailingSlash) ==
    LET pl == Len(path) IN
    IF trailingSlash = 1 /\ path[pl] # "/" THEN path \o <<"/">>
    ELSE IF trailingSlash = 0 /\ path[pl] = "/" THEN SubSeq(path, 1, pl - 1)
    ELSE path

\* Builder.URL; u.Path[0] and u.Path[pl-1] of an empty path are out of range
URL(bb) ==
    LET u0 == IF bb.base.nil THEN EmptyURL ELSE bb.base
        u1 == IF bb.path # <<>> THEN [u0 EXCEPT !.Path = bb.path] ELSE u0
    IN IF ~(u1.Scheme = "" /\ u1.Path = <<>>) /\ u1.Path = <<>>
       THEN [kind |-> "panic", url |-> EmptyURL]
       ELSE LET u2 == IF (u1.Scheme = "" /\ u1.Path = <<>>) \/ u1.Path[1] # "/"
                      THEN [u1 EXCEPT !.Path = <<"/">> \o u1.Path] ELSE u1
                u3 == [u2 EXCEPT !.Fragment = bb.fragment]
                u4 == IF bb.pathValues.set
                      THEN [u3 EXCEPT !.Path = ReplaceID(u3.Path, bb.pathValues.id)] ELSE u3
            IN IF ~bb.trailingSlash.present THEN [kind |-> "url", url |-> u4]
               ELSE IF u4.Path = <<>> THEN [kind |-> "panic", url |-> EmptyURL]
               ELSE [kind |-> "url",
                     url |-> [u4 EXCEPT !.Path =
                                 enforceTrailingSlash(u4.Path, bb.trailingSlash.value)]]

InitURI ==
    /\ gen = DefaultGenerator
    /\ b = NewBuilder
    /\ heap = InitHeap
    /\ prob = NoResult
    /\ act = "Build"
    /\ stackCalls = 0
    /\ uuidCalls = 0
    /\ nSet = 0
    /\ nBuild = 0
    /\ call = NewURIBuilder
    /\ ret = [fn |-> "none", kind |-> "none", url |-> EmptyURL]

\* what the setters of the uri.Builder have in common
URISetter ==
    /\ call.fn = "uri"
    /\ act' = "URISet"
    /\ UNCHANGED <<gen, b, heap, prob, stackCalls, uuidCalls, nSet, nBuild, ret>>

\* Builder.Base(base)
BaseCall ==
    /\ \E base \in Bases : call' = BaseURL(call, base)
    /\ URISetter

\* Builder.Path(path)
PathCall ==
    /\ \E path \in URIPaths : call' = [call EXCEPT !.path = path]
    /\ URISetter

\* Builder.Fragment(fragment)
FragmentCall ==
    /\ \E fragment \in {"", "top"} : call' = [call EXCEPT !.fragment = fragment]
    /\ URISetter

\* Builder.PathValue("id", value)
PathValueCall ==
    /\ \E v \in {<<"7">>, <<>>} : call' = [call EXCEPT !.pathValues = PathValueOf(v)]
    /\ URISetter

\* Builder.TrailingSlash(), TrailingSlash(true) and TrailingSlash(false)
TrailingSlashCall ==
    /\ \E trailingSlash \in {<<>>, <<1>>, <<0>>} :
          call' = [call EXCEPT !.trailingSlash =
                      IF Len(trailingSlash) > 0 THEN Of(trailingSlash[1]) ELSE Of(1)]
    /\ URISetter

\* Builder.URL()
URLCall ==
    /\ call.fn = "uri"
    /\ LET r == URL(call) IN ret' = [fn |-> "URL", kind |-> r.kind, url |-> r.url]
    /\ act' = "URL"
    /\ UNCHANGED <<gen, b, heap, prob, stackCalls, uuidCalls, nSet, nBuild, call>>

NextURI ==
    \/ BaseCall
    \/ PathCall
    \/ FragmentCall
    \/ PathValueCall
    \/ TrailingSlashCall
    \/ URLCall

SpecURI == InitURI /\ [][NextURI]_vars

----------------------------------------------------------------------------
(* stack.Capture and stack.Take: the stack of the calling goroutine is, from
   the top, runtime.Callers, Capture, Take, the depth frames from the caller
   of Take down to the function the goroutine runs, and runtime.goexit *)

\* len(storage) of a Stack the pool creates
InitialStorage == 64

\* the frames of runtime.Callers, Capture and Take, and that of runtime.goexit
FramesAboveCaller == 3
GoexitFrames == 1

StackDepths == {1, 61, 62, 63, 64, 125, 126, 500}
Skips == {0, 1, 2, 70}

\* runtime.Callers(skip, pcs) on a stack of total frames: the number of
\* entries of pcs it fills
Callers(skip, len, total) ==
    LET left == IF total > skip THEN total - skip ELSE 0 IN
    IF left < len THEN left ELSE len

\* the loop of Capture allocating storage of the same size
sameSize(len) == len

\* make([]uintptr, len(pcs)*2)
doubled(len) == len * 2

\* the frames FormatStack writes: every frame but the one Next reports
\* without more
Formatted(fc) == IF fc > 0 THEN fc - 1 ELSE 0

NoTake == [fn |-> "none", depth |-> 0, skip |-> 0, frames |-> 0]

\* call.storage is len(storage) of the Stack in the pool
InitStack ==
    /\ gen = DefaultGenerator
    /\ b = NewBuilder
    /\ heap = InitHeap
    /\ prob = NoResult
    /\ act = "Build"
    /\ stackCalls = 0
    /\ uuidCalls = 0
    /\ nSet = 0
    /\ nBuild = 0
    /\ call = [fn |-> "stack", pc |-> "idle", depth |-> 0, skip |-> 0,
               storage |-> InitialStorage, pcs |-> 0, fc |-> 0]
    /\ ret = NoTake

\* Take(skip) called depth frames deep, up to the first runtime.Callers of
\* Capture(skip + 1)
TakeCall ==
    /\ call.fn = "stack" /\ call.pc = "idle"
    /\ \E depth \in StackDepths, skip \in Skips :
          call' = [call EXCEPT !.pc = "loop", !.depth = depth, !.skip = skip,
                               !.pcs = call.storage,
                               !.fc = Callers((skip + 1) + 2, call.storage,
                                              FramesAboveCaller + depth + GoexitFrames)]
    /\ act' = "Take"
    /\ UNCHANGED <<gen, b, heap, prob, stackCalls, uuidCalls, nSet, nBuild, ret>>

\* an iteration of the loop of Capture
GrowStep ==
    /\ call.fn = "stack" /\ call.pc = "loop"
    /\ call.fc = call.pcs
    /\ call' = [call EXCEPT !.pcs = doubled(call.pcs),
                            !.fc = Callers((call.skip + 1) + 2, doubled(call.pcs),
                                           FramesAboveCaller + call.depth + GoexitFrames)]
    /\ act' = "Grow"
    /\ UNCHANGED <<gen, b, heap, prob, stackCalls, uuidCalls, nSet, nBuild, ret>>

\* the end of Capture, FormatStack and the return of the Stack to the pool
ReturnStep ==
    /\ call.fn = "stack" /\ call.pc = "loop"
    /\ call.fc # call.pcs
    /\ call' = [call EXCEPT !.pc = "idle", !.storage = call.pcs]
    /\ ret' = [fn |-> "Take", depth |-> call.depth, skip |-> call.skip,
               frames |-> Formatted(call.fc)]
    /\ act' = "Return"
    /\ UNCHANGED <<gen, b, heap, prob, stackCalls, uuidCalls, nSet, nBuild>>

NextStack ==
    \/ TakeCall
    \/ GrowStep
    \/ ReturnStep

\* Capture runs on once Take has called it
SpecStack == InitStack /\ [][NextStack]_vars /\ WF_vars(GrowStep \/ ReturnStep)

----------------------------------------------------------------------------
(* Matching a Problem in the tree of an error *)

\* the longest chain of errors wrapping one another
MaxChainLen == 3

\* Problems that differ in what the Matchers look at
NotFoundProblem(next) == [ZeroProblem EXCEPT !.Status = 404, !.err = next]
TracedNotFoundProblem(next) ==
    [ZeroProblem EXCEPT !.Status = 404, !.Stack = "stack", !.err = next]
TracedServerProblem(next) ==
    [ZeroProblem EXCEPT !.Status = 500, !.Stack = "stack", !.err = next]

\* the errors joined by an error that unwraps to two errors
Branches == {PlainErr(NilErr), NotFoundProblem(NilErr), TracedServerProblem(NilErr)}

\* nil, a join of two branches, or one of them wrapped at most n times
RECURSIVE ErrorTrees(_)
ErrorTrees(n) ==
    IF n = 0 THEN {NilErr} \cup {JoinErr(<<x, y>>) : x \in Branches, y \in Branches}
    ELSE LET inner == ErrorTrees(n - 1) IN
         inner \cup {PlainErr(e) : e \in inner}
               \cup {NotFoundProblem(e) : e \in inner}
               \cup {TracedNotFoundProblem(e) : e \in inner}
               \cup {TracedServerProblem(e) : e \in inner}

MatcherLists ==
    {<<>>, <<HasStatus(404, <<>>)>>, <<HasStatus(404, <<>>), HasStack>>}

InitMatch ==
    /\ gen = DefaultGenerator
    /\ b = NewBuilder
    /\ heap = InitHeap
    /\ prob = NoResult
    /\ act = "Build"
    /\ stackCalls = 0
    /\ uuidCalls = 0
    /\ nSet = 0
    /\ nBuild = 0
    /\ call \in [fn : {"match"}, err : ErrorTrees(MaxChainLen), matchers : MatcherLists]
    /\ ret = NoCall

AsMatchCall ==
    /\ call.fn = "match"
    /\ LET r == AsMatch(call.err, call.matchers) IN
           ret' = [fn |-> "AsMatch", p |-> r.p, found |-> r.found]
    /\ UNCHANGED <<gen, b, heap, prob, act, stackCalls, uuidCalls, nSet, nBuild, call>>

IsMatchCall ==
    /\ call.fn = "match"
    /\ ret' = [fn |-> "IsMatch", p |-> NilProblem, found |-> IsMatch(call.err, call.matchers)]
    /\ UNCHANGED <<gen, b, heap, prob, act, stackCalls, uuidCalls, nSet, nBuild, call>>

NextMatch ==
    \/ AsMatchCall
    \/ IsMatchCall

SpecMatch == InitMatch /\ [][NextMatch]_vars

----------------------------------------------------------------------------
(* Building, parsing and matching a Code *)

User == <<"U", "S", "E", "R">>

CodeGenerators ==
    { DefaultGenerator,
      [DefaultGenerator EXCEPT !.CodeValueLen = 8],
      [DefaultGenerator EXCEPT !.CodeValueLen = 2],
      [DefaultGenerator EXCEPT !.CodeSeparator = "."],
      [DefaultGenerator EXCEPT !.CodeSeparator = BellRune],
      [DefaultGenerator EXCEPT !.CodeNSValidator = [fn |-> "LenNSValidator", min |-> 1, max |-> 4],
                               !.CodeSeparator = ".", !.CodeValueLen = 8] }

Namespaces ==
    {<<>>, User, <<"A", "U", "T", "H">>, <<"U", "-", "S">>, User \o <<"S">>}

CodeValues == {0, 7, 404, 123456789}

Codes ==
    { User \o <<"-", "4", "0", "4">>,
      User \o <<"-", "4", "0", "4", "0", "0", "0", "0", "0">>,
      User \o <<".", "4", "0", "4">>,
      User \o <<"4", "0", "4">>,
      <<"-", "4", "0", "4">>,
      User \o <<"-">>,
      User \o <<"-", "4", "x", "4">>,
      <<"A", "U", "T", "H", "-", "7", "-", "1">>,
      User \o <<"S", ".", "4", "0", "4">> }

ZeroParsedCode == [Code |-> <<>>, NS |-> <<>>, Value |-> 0]

InitCode ==
    /\ gen = DefaultGenerator
    /\ b = NewBuilder
    /\ heap = InitHeap
    /\ prob = NoResult
    /\ act = "Build"
    /\ stackCalls = 0
    /\ uuidCalls = 0
    /\ nSet = 0
    /\ nBuild = 0
    /\ call \in [fn : {"code"}, g : CodeGenerators, ns : Namespaces,
                  value : CodeValues, code : Codes]
    /\ ret = NoCall

\* Generator.Coder(ns).Build(value)
BuildCall ==
    /\ call.fn = "code"
    /\ LET r == Build(Coder(call.g, call.ns), call.value) IN
           ret' = [fn |-> "Build", code |-> r.code, err |-> r.err,
                   pc |-> ZeroParsedCode, ok |-> FALSE]
    /\ UNCHANGED <<gen, b, heap, prob, act, stackCalls, uuidCalls, nSet, nBuild, call>>

\* Generator.Coder(ns).Parse(code)
ParseCall ==
    /\ call.fn = "code"
    /\ LET r == Parse(Coder(call.g, call.ns), call.code) IN
           ret' = [fn |-> "Parse", code |-> <<>>, err |-> r.err, pc |-> r.pc, ok |-> FALSE]
    /\ UNCHANGED <<gen, b, heap, prob, act, stackCalls, uuidCalls, nSet, nBuild, call>>

\* Generator.Coder(ns).Build(value) and, when it succeeds, Parse of its result
\* by the same Coder; ok tells that Build succeeded
BuildParseCall ==
    /\ call.fn = "code"
    /\ LET c == Coder(call.g, call.ns)
           r == Build(c, call.value)
           q == Parse(c, r.code)
       IN ret' = IF r.err # "nil"
                 THEN [fn |-> "BuildParse", code |-> r.code, err |-> r.err,
                       pc |-> ZeroParsedCode, ok |-> FALSE]
                 ELSE [fn |-> "BuildParse", code |-> r.code, err |-> q.err,
                       pc |-> q.pc, ok |-> TRUE]
    /\ UNCHANGED <<gen, b, heap, prob, act, stackCalls, uuidCalls, nSet, nBuild, call>>

\* Generator.Coder(ns).Validate(code)
ValidateCall ==
    /\ call.fn = "code"
    /\ ret' = [fn |-> "Validate", code |-> <<>>,
               err |-> Validate(Coder(call.g, call.ns), call.code),
               pc |-> ZeroParsedCode, ok |-> FALSE]
    /\ UNCHANGED <<gen, b, heap, prob, act, stackCalls, uuidCalls, nSet, nBuild, call>>

\* Generator.Coder().ValidateNS(ns)
ValidateNSCall ==
    /\ call.fn = "code"
    /\ ret' = [fn |-> "ValidateNS", code |-> <<>>,
               err |-> ValidateNS(Coder(call.g, <<>>), call.ns),
               pc |-> ZeroParsedCode, ok |-> FALSE]
    /\ UNCHANGED <<gen, b, heap, prob, act, stackCalls, uuidCalls, nSet, nBuild, call>>

\* Generator.Coder().ValidateValue(value)
ValidateValueCall ==
    /\ call.fn = "code"
    /\ ret' = [fn |-> "ValidateValue", code |-> <<>>,
               err |-> ValidateValue(Coder(call.g, <<>>), call.value),
               pc |-> ZeroParsedCode, ok |-> FALSE]
    /\ UNCHANGED <<gen, b, heap, prob, act, stackCalls, uuidCalls, nSet, nBuild, call>>

\* HasCodeNSUsing(g, ns)(p) for a Problem p with the Code
HasCodeNSUsingCall ==
    /\ call.fn = "code"
    /\ ret' = [fn |-> "HasCodeNSUsing", code |-> <<>>, err |-> "nil", pc |-> ZeroParsedCode,
               ok |-> HasCodeNSUsing(call.g, call.ns, <<>>,
                                     [ZeroProblem EXCEPT !.Code = call.code])]
    /\ UNCHANGED <<gen, b, heap, prob, act, stackCalls, uuidCalls, nSet, nBuild, call>>

\* HasCodeValueUsing(g, value)(p) for a Problem p with the Code
HasCodeValueUsingCall ==
    /\ call.fn = "code"
    /\ ret' = [fn |-> "HasCodeValueUsing", code |-> <<>>, err |-> "nil", pc |-> ZeroParsedCode,
               ok |-> HasCodeValueUsing(call.g, call.value, <<>>,
                                        [ZeroProblem EXCEPT !.Code = call.code])]
    /\ UNCHANGED <<gen, b, heap, prob, act, stackCalls, uuidCalls, nSet, nBuild, call>>

NextCode ==
    \/ BuildCall
    \/ ParseCall
    \/ BuildParseCall
    \/ ValidateCall
    \/ ValidateNSCall
    \/ ValidateValueCall
    \/ HasCodeNSUsingCall
    \/ HasCodeValueUsingCall

SpecCode == InitCode /\ [][NextCode]_vars


----------------------------------------------------------------------------
(* Properties of the resolution of the scalar fields (specification Spec) *)

\* the last operation was a Builder.Problem() call that returned a Problem;
\* b is then the Builder that was resolved (resolution only fills its caches)
Resolved == act = "Problem" /\ prob.kind = "problem"

\* the first non-empty string / non-zero number of three
Pick3(x, y, z, zero) == IF x # zero THEN x ELSE IF y # zero THEN y ELSE z

\* C1: with a Generator whose Translator is nil, Builder.Problem() returns a
\* Problem without faulting, and detail and title come from the explicit
\* literal, the inherited value, the Definition/Type literal or the fixed
\* default, as if every translation had no localized value.
C1_NilTranslatorResolves ==
    (act = "Problem" /\ gen.Translator = NilFn) =>
        /\ prob.kind = "problem"
        /\ prob.Detail = Pick3(b.detail, b.problem.Detail, b.def.Detail, "")
        /\ prob.Title =
             Pick3(b.title, b.problem.Title,
                   IF b.def.Type.Title # "" THEN b.def.Type.Title ELSE DefaultTitle, "")

\* C2: with a Translator that has a localized value for the explicit detail
\* (title) key, the resolved detail (title) is that value whatever else is
\* set; with no localized value for the key the explicit literal comes next.
C2_TranslatedExplicitKeyWins ==
    (Resolved /\ gen.Translator # NilFn) =>
        /\ Translate(b.detailKey) # "" => prob.Detail = Translate(b.detailKey)
        /\ Translate(b.titleKey) # "" => prob.Title = Translate(b.titleKey)
        /\ (Translate(b.detailKey) = "" /\ b.detail # "") => prob.Detail = b.detail
        /\ (Translate(b.titleKey) = "" /\ b.title # "") => prob.Title = b.title

\* C3: code, instance and status are each the first non-empty / non-zero of
\* the explicit override, the inherited value and the Definition/Type value,
\* the status being 500 when all three are zero.
C3_OverridePrecedence ==
    Resolved =>
        /\ prob.Code = Pick3(b.code, b.problem.Code, b.def.Code, "")
        /\ prob.Instance = Pick3(b.instanceURI, b.problem.Instance, b.def.Instance, "")
        /\ prob.Status =
             Pick3(b.status, b.problem.Status,
                   IF b.def.Type.Status # 0 THEN b.def.Type.Status
                   ELSE StatusInternalServerError, 0)

\* C3 witness: an explicit code was resolved against a conflicting inherited
\* code and a conflicting Definition code
C3_Witness ==
    /\ Resolved
    /\ b.code # "" /\ b.problem.Code # "" /\ b.def.Code # ""
    /\ b.code # b.problem.Code /\ b.problem.Code # b.def.Code
    /\ prob.Code = b.code

\* C4 as claimed: the type URI is the first non-empty of the explicit
\* override, the inherited type, the Typer's result, Type.URI and
\* "about:blank" (so an empty Typer result falls through to Type.URI).
C4_TyperFallsThroughToTypeURI ==
    Resolved =>
        prob.Type =
            Pick3(b.typeURI, b.problem.Type,
                  Pick3(IF gen.Typer # NilFn THEN Typer(gen.Typer, b.def.Type) ELSE "",
                        b.def.Type.URI, DefaultTypeURI, ""), "")

\* C4 as amended: the type URI is the first non-empty of the explicit override,
\* the inherited type, the Type's URI -- which is the Typer's result when a
\* Typer is configured and Type.URI only when none is -- and "about:blank".
C4_TyperReplacesTypeURI ==
    Resolved =>
        prob.Type =
            Pick3(b.typeURI, b.problem.Type,
                  IF gen.Typer # NilFn
                  THEN (IF Typer(gen.Typer, b.def.Type) # "" THEN Typer(gen.Typer, b.def.Type)
                        ELSE DefaultTypeURI)
                  ELSE (IF b.def.Type.URI # "" THEN b.def.Type.URI ELSE DefaultTypeURI), "")

\* C4 witness: a Typer returned nothing for a Type with a URI, and the
\* resolved type is "about:blank"
C4_Witness ==
    /\ Resolved
    /\ gen.Typer # NilFn /\ Typer(gen.Typer, b.def.Type) = ""
    /\ b.def.Type.URI # "" /\ b.typeURI = "" /\ b.problem.Type = ""
    /\ prob.Type = DefaultTypeURI

\* C5 as claimed: the level of Problem.LogInfo() is the first non-zero of the
\* explicit level, the inherited level, the LogLeveler's result, Type.LogLevel
\* and the default level (so a zero LogLeveler result falls through to
\* Type.LogLevel).
C5_LevelerFallsThroughToTypeLevel ==
    Resolved =>
        LogInfo(prob).Level =
            Pick3(b.logLevel, b.problem.logInfo.Level,
                  Pick3(IF gen.LogLeveler # NilFn THEN LogLeveler(gen.LogLeveler, b.def.Type) ELSE 0,
                        b.def.Type.LogLevel, DefaultLogLevel, 0), 0)

\* C5 as amended: the level of Problem.LogInfo() is the first non-zero of the
\* explicit level, the inherited level, the Type's level -- which is the
\* LogLeveler's result when a LogLeveler is configured and Type.LogLevel only
\* when none is -- and the default level (error).
C5_LevelerReplacesTypeLevel ==
    Resolved =>
        LogInfo(prob).Level =
            Pick3(b.logLevel, b.problem.logInfo.Level,
                  IF gen.LogLeveler # NilFn
                  THEN (IF LogLeveler(gen.LogLeveler, b.def.Type) # 0
                        THEN LogLeveler(gen.LogLeveler, b.def.Type) ELSE DefaultLogLevel)
                  ELSE (IF b.def.Type.LogLevel # 0 THEN b.def.Type.LogLevel ELSE DefaultLogLevel), 0)

\* C5 witness: a LogLeveler returned zero for a Type with a level other than
\* the default, and the reported level is the default
C5_Witness ==
    /\ Resolved
    /\ gen.LogLeveler # NilFn /\ LogLeveler(gen.LogLeveler, b.def.Type) = 0
    /\ b.def.Type.LogLevel \notin {0, DefaultLogLevel}
    /\ b.logLevel = 0 /\ b.problem.logInfo.Level = 0
    /\ LogInfo(prob).Level = DefaultLogLevel

\* C8: every Problem that is returned has a non-empty title and a non-empty
\* type, which are "Unknown Error" and "about:blank" when no tier has a value.
C8_TitleAndTypeNeverEmpty ==
    /\ prob.kind = "problem" => (prob.Title # "" /\ prob.Type # "")
    /\ (Resolved /\ b.title = "" /\ b.problem.Title = "" /\ b.def.Type.Title = "")
          => prob.Title = DefaultTitle
    /\ (Resolved /\ b.typeURI = "" /\ b.problem.Type = "" /\ b.def.Type.URI = ""
            /\ gen.Typer = NilFn)
          => prob.Type = DefaultTypeURI

\* C8 witness: a Builder with nothing set at all was resolved
C8_Witness ==
    /\ Resolved
    /\ [b EXCEPT !.stack = "", !.uuid = ""] = NewBuilder
    /\ prob.Title = DefaultTitle
    /\ prob.Type = DefaultTypeURI


----------------------------------------------------------------------------
(* Properties of the extensions (specification SpecExt) *)

\* the entries of the extensions of Problem p
ExtensionsOf(h, p) == MapContent(h, p.Extensions)

\* C6: the extensions of the Problem are the entries of the first source
\* that has entries among the explicit, the inherited and the Definition's
\* extensions; a source with zero entries shadows nothing.
C6_EmptyMapNeverShadows ==
    Resolved =>
        LET explicit == MapContent(heap, b.extensions)
            inherited == MapContent(heap, b.problem.Extensions)
            defined == MapContent(heap, b.def.Extensions)
        IN ExtensionsOf(heap, prob) =
              IF DOMAIN explicit # {} THEN explicit
              ELSE IF DOMAIN inherited # {} THEN inherited
              ELSE defined

\* the maps a caller can reach that a resolution of Builder bb may read
SourcesOf(bb) ==
    {ArgMap, ArgEmptyMap, bb.extensions, bb.problem.Extensions, bb.def.Extensions}

\* the extensions a resolution of Builder bb would return on heap h
ResolvedExtensions(g, bb, h) ==
    LET r == build(g, bb, h, 1, 0, 0) IN
    IF r.prob.kind = "problem" THEN ExtensionsOf(r.heap, r.prob) ELSE EmptyMapValue

\* C7: once a Problem is returned, no setter call and no change of a source
\* map by the caller changes the Problem's extensions, and a change of the
\* Problem's extensions changes no source map and not what the Builder
\* resolves to next.
C7_ExtensionsNeverAlias ==
    [][ prob.kind = "problem" =>
          /\ act' \in {"Set", "Panic", "MutateSource"} =>
                ExtensionsOf(heap', prob') = ExtensionsOf(heap, prob)
          /\ act' = "MutateProblem" =>
                /\ \A r \in SourcesOf(b) : MapContent(heap', r) = MapContent(heap, r)
                /\ ResolvedExtensions(gen, b, heap') = ResolvedExtensions(gen, b, heap)
      ]_vars

\* C7 witness: after a resolution the caller changed a source map whose
\* entries the Problem had been given, and the Problem still has the entries
\* of before the change
C7_Witness ==
    /\ act = "MutateSource"
    /\ prob.kind = "problem"
    /\ prob.Extensions # NilMap
    /\ \E r \in SourcesOf(b) \ {NilMap} :
          /\ r <= Len(InitHeap)
          /\ heap[r] # InitHeap[r]
          /\ DOMAIN InitHeap[r] # {}
          /\ ExtensionsOf(heap, prob) = InitHeap[r]

\* C9: no key of the extensions of a returned Problem is empty or reserved,
\* whichever tier supplied the extensions.
C9_NoReservedExtensionKey ==
    Resolved =>
        \A k \in DOMAIN ExtensionsOf(heap, prob) : k # "" /\ k \notin reservedExtensions

----------------------------------------------------------------------------
(* Properties of the stack trace and UUID flags (specification SpecFlag) *)

\* the flag a resolution of Builder bb uses for the stack trace / the UUID
StackFlagOf(g, bb) == IF bb.stackFlag.present THEN bb.stackFlag.value ELSE g.StackFlag
UUIDFlagOf(g, bb) == IF bb.uuidFlag.present THEN bb.uuidFlag.value ELSE g.UUIDFlag

\* C10: a resolution populates Problem.Stack (UUID) only if the resolved flag
\* contains FlagField and the log-only stack (uuid) only if it contains
\* FlagLog; under FlagDisable both are empty, the collaborator is not invoked
\* and nothing is taken over from the wrapped Problem.
C10_FlagsGateExposure ==
    [][ (nBuild' = nBuild + 1 /\ prob'.kind = "problem") =>
          LET sf == StackFlagOf(gen, b)
              uf == UUIDFlagOf(gen, b)
          IN /\ prob'.Stack # "" => sf \in {FlagField, FlagField + FlagLog}
             /\ prob'.logInfo.Stack # "" => sf \in {FlagLog, FlagField + FlagLog}
             /\ prob'.UUID # "" => uf \in {FlagField, FlagField + FlagLog}
             /\ prob'.logInfo.UUID # "" => uf \in {FlagLog, FlagField + FlagLog}
             /\ sf = FlagDisable =>
                   /\ prob'.Stack = "" /\ prob'.logInfo.Stack = ""
                   /\ stackCalls' = stackCalls
                   /\ b'.stack = b.stack
             /\ uf = FlagDisable =>
                   /\ prob'.UUID = "" /\ prob'.logInfo.UUID = ""
                   /\ uuidCalls' = uuidCalls
                   /\ b'.uuid = b.uuid
      ]_vars

\* C10 witness: a Builder whose own flag FlagDisable replaces a Generator
\* flag that exposes the stack trace was resolved while wrapping a Problem
\* that carries a stack trace, and the new Problem has none
C10_Witness ==
    /\ Resolved
    /\ b.stackFlag = Of(FlagDisable)
    /\ gen.StackFlag = FlagField + FlagLog
    /\ b.problem.Stack # ""
    /\ prob.Stack = "" /\ prob.logInfo.Stack = ""
    /\ b.stack = ""
    /\ stackCalls = 0

\* C11: when the resolved flag contains both FlagField and FlagLog, the
\* public stack trace of the returned Problem equals its log-only stack trace,
\* and likewise the public uuid equals the log-only uuid, whether the value
\* was inherited from the wrapped Problem or captured / generated.
C11_BothExposuresSameValue ==
    Resolved =>
        /\ StackFlagOf(gen, b) = FlagField + FlagLog => prob.Stack = prob.logInfo.Stack
        /\ UUIDFlagOf(gen, b) = FlagField + FlagLog => prob.UUID = prob.logInfo.UUID

\* C11 witness: a stack trace was captured and a uuid generated, and each is
\* exposed twice with the same value
C11_Witness ==
    /\ Resolved
    /\ StackFlagOf(gen, b) = FlagField + FlagLog
    /\ UUIDFlagOf(gen, b) = FlagField + FlagLog
    /\ stackCalls = 1 /\ prob.Stack = Captured[1] /\ prob.logInfo.Stack = Captured[1]
    /\ uuidCalls = 1 /\ prob.UUID = Generated[1] /\ prob.logInfo.UUID = Generated[1]

\* two Problems with equal fields, the extension maps compared by content
SameProblem(p, h, q, h2) ==
    /\ [p EXCEPT !.Extensions = NilMap] = [q EXCEPT !.Extensions = NilMap]
    /\ (p.Extensions = NilMap) = (q.Extensions = NilMap)
    /\ ExtensionsOf(h, p) = ExtensionsOf(h2, q)

----------------------------------------------------------------------------
(* Properties of the lazily filled caches (specification SpecLazy) *)

\* C13: from the creation of a Builder on, over any number of resolutions
\* and over the public and the log-only exposure within one resolution,
\* stack.Take is invoked at most once and Generator.uuid at most once,
\* whatever they return.
C13_CollaboratorsInvokedAtMostOnce ==
    stackCalls <= 1 /\ uuidCalls <= 1

----------------------------------------------------------------------------
(* Properties of inheriting the stack trace and UUID (specification SpecFlag) *)

\* the stack trace / uuid the wrapped Problem of Builder bb carries: the
\* public field if it is not empty, else the log-only one
InheritedStack(bb) ==
    IF bb.problem.Stack # "" THEN bb.problem.Stack ELSE bb.problem.logInfo.Stack
InheritedUUID(bb) ==
    IF bb.problem.UUID # "" THEN bb.problem.UUID ELSE bb.problem.logInfo.UUID

\* the returned Problem q exposes stack trace s (uuid u) wherever flag f asks
ExposesStack(q, f, s) ==
    /\ checkFlag(f, FlagField) => q.Stack = s
    /\ checkFlag(f, FlagLog) => q.logInfo.Stack = s
ExposesUUID(q, f, u) ==
    /\ checkFlag(f, FlagField) => q.UUID = u
    /\ checkFlag(f, FlagLog) => q.logInfo.UUID = u

\* C14: whenever a Builder is resolved while its wrapped error
\* yields an inherited Problem with a stack trace (uuid) and the resolved
\* flag is not FlagDisable, the new Problem exposes the inherited stack
\* trace (uuid) and the collaborator is not invoked, whatever was done with
\* the Builder before.
C14_InheritedAlwaysWins ==
    [][ (nBuild' = nBuild + 1 /\ prob'.kind = "problem") =>
            /\ (InheritedStack(b) # "" /\ StackFlagOf(gen, b) # FlagDisable) =>
                    /\ ExposesStack(prob', StackFlagOf(gen, b), InheritedStack(b))
                    /\ stackCalls' = stackCalls
            /\ (InheritedUUID(b) # "" /\ UUIDFlagOf(gen, b) # FlagDisable) =>
                    /\ ExposesUUID(prob', UUIDFlagOf(gen, b), InheritedUUID(b))
                    /\ uuidCalls' = uuidCalls
      ]_vars

----------------------------------------------------------------------------
(* Properties of the Builder-level flags (specification SpecFlag) *)

\* every list of at most three flags
AllFlagLists ==
    UNION {[1..n -> {FlagDisable, FlagField, FlagLog}] : n \in 0..3}

\* the flag a list of flags stands for
FlagOfList(flags) ==
    IF flags = <<>> THEN FlagField + FlagLog
    ELSE IF \E i \in DOMAIN flags : flags[i] = FlagDisable THEN FlagDisable
    ELSE (IF \E i \in DOMAIN flags : flags[i] = FlagField THEN FlagField ELSE 0)
         + (IF \E i \in DOMAIN flags : flags[i] = FlagLog THEN FlagLog ELSE 0)

\* the Problem a resolution of Builder bb under Generator g returns
ProblemOf(g, bb) == build(g, bb, heap, 1, stackCalls, uuidCalls).prob

\* C15: Builder.Stack / Builder.UUID with no flags set the Builder's flag to
\* FlagField|FlagLog, with FlagDisable anywhere in the list to FlagDisable,
\* otherwise to the union of the flags listed; a flag set on the Builder
\* (FlagDisable included) replaces the Generator's flag entirely, a Builder
\* without one uses the Generator's flag, and the zero Generator flag
\* disables capture and generation.
C15_BuilderFlagReplacesGeneratorFlag ==
    [][ /\ \A flags \in AllFlagLists : resolveFlag(flags) = Of(FlagOfList(flags))
        /\ b'.stackFlag.present =>
                \E flags \in AllFlagLists : b'.stackFlag.value = FlagOfList(flags)
        /\ b'.uuidFlag.present =>
                \E flags \in AllFlagLists : b'.uuidFlag.value = FlagOfList(flags)
        /\ (nBuild' = nBuild + 1 /\ prob'.kind = "problem") =>
              /\ prob' = ProblemOf(gen, b)
              /\ b.stackFlag.present =>
                    \A f \in 0..3 : ProblemOf([gen EXCEPT !.StackFlag = f], b) = prob'
              /\ b.uuidFlag.present =>
                    \A f \in 0..3 : ProblemOf([gen EXCEPT !.UUIDFlag = f], b) = prob'
              /\ ~b.stackFlag.present =>
                    ProblemOf(gen, [b EXCEPT !.stackFlag = Of(gen.StackFlag)]) = prob'
              /\ ~b.uuidFlag.present =>
                    ProblemOf(gen, [b EXCEPT !.uuidFlag = Of(gen.UUIDFlag)]) = prob'
              /\ (~b.stackFlag.present /\ gen.StackFlag = 0) =>
                    /\ prob'.Stack = "" /\ prob'.logInfo.Stack = ""
                    /\ stackCalls' = stackCalls
              /\ (~b.uuidFlag.present /\ gen.UUIDFlag = 0) =>
                    /\ prob'.UUID = "" /\ prob'.logInfo.UUID = ""
                    /\ uuidCalls' = uuidCalls
      ]_vars

\* C15 witness: Builder.UUID(FlagField) replaced the Generator's FlagLog, and
\* the generated uuid is in the public field and not in the log information
C15_Witness ==
    /\ Resolved
    /\ b.uuidFlag = Of(FlagField)
    /\ gen.UUIDFlag = FlagLog
    /\ prob.UUID = Generated[1]
    /\ prob.logInfo.UUID = ""

----------------------------------------------------------------------------
(* Properties of the Unwrappers (specification SpecFlag) *)

\* the errors Builder.Wrap is given, and one whose chain holds two Problems
WrappedErrors == Errors \cup {PlainErr([InnerLogOnly EXCEPT !.err = InnerFull])}

\* the public fields and extensions of Problem p are empty
NoPublicFields(p) ==
    /\ p.Code = "" /\ p.Detail = "" /\ p.Instance = "" /\ p.Status = 0
    /\ p.Title = "" /\ p.Type = "" /\ p.Extensions = NilMap

\* C16: NoopUnwrapper yields an empty Problem for every error;
\* PropagatedFieldUnwrapper yields only the stack, uuid and log information
\* of the first Problem of the error's chain; FullUnwrapper yields all its
\* public fields and extensions; each yields an empty Problem when the chain
\* holds no Problem or the error is nil; Builder.Wrap with no Unwrapper of
\* its own or of the Generator uses the propagated-only one.
C16_UnwrapperModes ==
    /\ \A err \in WrappedErrors :
          LET first == As(err)
              none == NoopUnwrapper(err)
              some == unwrapPropagatedFields(err)
              all == unwrapAllFields(err)
          IN /\ none = ZeroProblem
             /\ ~first.isProblem => (some = ZeroProblem /\ all = ZeroProblem)
             /\ first.isProblem =>
                   /\ some.Stack = first.p.Stack /\ some.UUID = first.p.UUID
                   /\ some.logInfo = first.p.logInfo
                   /\ NoPublicFields(some) /\ some.err = NilErr
                   /\ all.Code = first.p.Code /\ all.Detail = first.p.Detail
                   /\ all.Instance = first.p.Instance /\ all.Status = first.p.Status
                   /\ all.Title = first.p.Title /\ all.Type = first.p.Type
                   /\ all.Stack = first.p.Stack /\ all.UUID = first.p.UUID
                   /\ all.Extensions = first.p.Extensions
             /\ gen.Unwrapper = NilFn => Unwrapped(gen, err, NilFn) = some
    /\ b.problem \in {Unwrapped(gen, b.err, u) : u \in Unwrappers \cup {NilFn}}
    /\ ~As(b.err).isProblem => b.problem = ZeroProblem

\* C16 witness: under a Generator without an Unwrapper a Problem with every
\* field set was wrapped, and the Builder inherits its stack, uuid and log
\* information and nothing else
C16_Witness ==
    /\ act = "Set"
    /\ gen.Unwrapper = NilFn
    /\ b.err = InnerFull
    /\ b.problem.Stack = InnerFull.Stack /\ b.problem.UUID = InnerFull.UUID
    /\ b.problem.logInfo = InnerFull.logInfo
    /\ NoPublicFields(b.problem)

----------------------------------------------------------------------------
(* Properties of matching (specification SpecMatch) *)

\* err is a linear chain: no error of it unwraps to several errors
RECURSIVE IsLinear(_)
IsLinear(err) ==
    CASE err.kind = "nil" -> TRUE
      [] err.kind = "problem" -> IsLinear(err.err)
      [] err.kind = "plain" -> IsLinear(err.next)
      [] err.kind = "join" -> FALSE

\* the Problems of a linear chain, the outermost first
RECURSIVE ChainProblems(_)
ChainProblems(err) ==
    CASE err.kind = "nil" -> <<>>
      [] err.kind = "problem" -> <<err>> \o ChainProblems(err.err)
      [] err.kind = "plain" -> ChainProblems(err.next)

\* every Problem anywhere in the tree of err
RECURSIVE TreeProblems(_)
TreeProblems(err) ==
    CASE err.kind = "nil" -> {}
      [] err.kind = "problem" -> {err} \cup TreeProblems(err.err)
      [] err.kind = "plain" -> TreeProblems(err.next)
      [] err.kind = "join" -> UNION {TreeProblems(err.errs[i]) : i \in DOMAIN err.errs}

\* the Problems errors.As leads to: the first one it finds in the tree of
\* err, then the first one it finds in the tree that Problem wraps, and so on
RECURSIVE AsPath(_)
AsPath(err) ==
    LET r == As(err) IN
    IF r.isProblem THEN <<r.p>> \o AsPath(r.p.err) ELSE <<>>

\* Problem p satisfies every Matcher of the list
SatisfiesAll(p, matchers) ==
    \A i \in DOMAIN matchers : CallMatcher(matchers[i], p)

\* C17: for a linear chain of Problems wrapping one another, with errors of
\* other types in between, AsMatch returns found = true with the outermost
\* Problem that satisfies all matchers, and found = false with no Problem
\* when no Problem of the chain satisfies them or the error is nil.
C17_AsMatchOutermostMatch ==
    (ret.fn = "AsMatch" /\ IsLinear(call.err)) =>
        LET ps == ChainProblems(call.err)
            matching == {i \in DOMAIN ps : SatisfiesAll(ps[i], call.matchers)}
        IN /\ ret.found <=> matching # {}
           /\ ret.found =>
                 \E i \in matching : /\ ret.p = ps[i]
                                      /\ \A j \in matching : i <= j
           /\ ~ret.found => ret.p = NilProblem

\* C17 witness: of three nested Problems only the innermost has the status
\* asked for, and AsMatch returned it
C17_Witness ==
    /\ ret.fn = "AsMatch"
    /\ call.err = TracedServerProblem(TracedServerProblem(NotFoundProblem(NilErr)))
    /\ call.matchers = <<HasStatus(404, <<>>)>>
    /\ ret.found
    /\ ret.p = NotFoundProblem(NilErr)

----------------------------------------------------------------------------
(* Properties of the Code codec (specification SpecCode) *)

\* the Code of the call parsed under the Generator of the call, no NS expected
ParsedCall == Parse(Coder(call.g, <<>>), call.code)

\* C19: HasCodeNSUsing(ns) with the default equals operator returns true for
\* a Problem whose Code parses under the Generator with namespace ns and
\* false when the parsed namespace differs; HasCodeValueUsing(v) returns
\* true exactly for a Code that parses with the value v.
C19_CodeMatchersMatchParsedCode ==
    /\ ret.fn = "HasCodeNSUsing" =>
          /\ (ParsedCall.err = "nil" /\ ParsedCall.pc.NS = call.ns) => ret.ok
          /\ (ParsedCall.err = "nil" /\ ParsedCall.pc.NS # call.ns) => ~ret.ok
    /\ ret.fn = "HasCodeValueUsing" =>
          (ret.ok <=> (ParsedCall.err = "nil" /\ ParsedCall.pc.Value = call.value))

\* the decimal digits of the values Build is called with
DecimalOf(value) ==
    CASE value = 0 -> <<"0">>
      [] value = 7 -> <<"7">>
      [] value = 404 -> <<"4", "0", "4">>
      [] value = 123456789 -> <<"1", "2", "3", "4", "5", "6", "7", "8", "9">>

\* n characters "0"
Zeros(n) == [i \in 1..n |-> "0"]

\* the separator of Generator g, when it is printable
SeparatorOf(g) == IF g.CodeSeparator = NoRune THEN "-" ELSE g.CodeSeparator

\* ns is a valid namespace under Generator g
ValidNS(g, ns) ==
    /\ ns # <<>>
    /\ \A i \in DOMAIN ns : ns[i] # SeparatorOf(g)
    /\ g.CodeNSValidator.fn # NilFn =>
          (Len(ns) >= g.CodeNSValidator.min /\ Len(ns) <= g.CodeNSValidator.max)

C21_ParseOfBuildRoundTrips ==
    (ret.fn = "BuildParse" /\ ret.ok) =>
        /\ ret.err = "nil"
        /\ ret.pc.NS = call.ns
        /\ ret.pc.Value = call.value

\* the indices of code holding the separator of Generator g
SeparatorsIn(g, code) == {i \in 1..Len(code) : code[i] = SeparatorOf(g)}

\* the least element of a non-empty set of numbers
Least(S) == CHOOSE i \in S : \A j \in S : i <= j

IsDigit(ch) == ch \in {"0", "1", "2", "3", "4", "5", "6", "7", "8", "9"}

DigitValue(ch) ==
    CASE ch = "0" -> 0 [] ch = "1" -> 1 [] ch = "2" -> 2 [] ch = "3" -> 3 [] ch = "4" -> 4
      [] ch = "5" -> 5 [] ch = "6" -> 6 [] ch = "7" -> 7 [] ch = "8" -> 8 [] ch = "9" -> 9

\* the number a non-empty string of digits denotes, read from its last digit
RECURSIVE NumberOf(_)
NumberOf(str) ==
    IF Len(str) = 1 THEN DigitValue(str[1])
    ELSE 10 * NumberOf(SubSeq(str, 1, Len(str) - 1)) + DigitValue(str[Len(str)])

\* C22: Coder.Parse splits the code at the first separator: the namespace is
\* what precedes it, the value string what follows it (later separators
\* included). It fails when there is no separator, when a non-empty expected
\* namespace differs from the parsed one, and when the value string is empty,
\* too long or not a non-negative integer. ParsedCode.Code is always the
\* input and ParsedCode.NS is filled in whenever the separator was found.
C22_ParseSplitsAtFirstSeparator ==
    ret.fn = "Parse" =>
        /\ ret.pc.Code = call.code
        /\ call.g.CodeSeparator # BellRune =>
              LET at == SeparatorsIn(call.g, call.code) IN
              IF at = {} THEN ret.err # "nil"
              ELSE LET i == Least(at)
                       valStr == SubSeq(call.code, i + 1, Len(call.code))
                       vl == call.g.CodeValueLen
                   IN /\ ret.pc.NS = SubSeq(call.code, 1, i - 1)
                      /\ (call.ns # <<>> /\ call.ns # ret.pc.NS) => ret.err # "nil"
                      /\ valStr = <<>> => ret.err # "nil"
                      /\ (vl > 0 /\ Len(valStr) > vl) => ret.err # "nil"
                      /\ (\E k \in DOMAIN valStr : ~IsDigit(valStr[k])) => ret.err # "nil"
                      /\ ret.err = "nil" => ret.pc.Value = NumberOf(valStr)

\* C22 witness: Parse("AUTH-7-1") under the default Generator failed on the
\* value string "7-1" and returned the namespace "AUTH"
C22_Witness ==
    /\ ret.fn = "Parse"
    /\ call.g = DefaultGenerator
    /\ call.code = <<"A", "U", "T", "H", "-", "7", "-", "1">>
    /\ ret.pc.NS = <<"A", "U", "T", "H">>
    /\ ret.err # "nil"

\* the calls of the Coder that return an error
CoderCalls == {"Build", "Parse", "Validate", "ValidateNS", "ValidateValue"}

----------------------------------------------------------------------------
(* Properties of Builder.Extension and Builder.Extensions (specification SpecExt) *)

\* the explicit extensions of Builder bb on heap h
ExplicitExtensions(h, bb) == MapContent(h, bb.extensions)

\* C24: an Extension or Extensions call that does not panic keeps every key
\* an earlier call has set in the explicit extensions of the Builder, with
\* the value it had unless the call supplies the key again.
C24_ExtensionCallsKeepEarlierKeys ==
    [][ act' = "Set" =>
          \A k \in DOMAIN ExplicitExtensions(heap, b) :
              /\ k \in DOMAIN ExplicitExtensions(heap', b')
              /\ \/ ExplicitExtensions(heap', b')[k] = ExplicitExtensions(heap, b)[k]
                 \/ ExplicitExtensions(heap', b')[k] = 7
                 \/ /\ k \in DOMAIN heap[ArgMap]
                    /\ ExplicitExtensions(heap', b')[k] = heap[ArgMap][k]
      ]_vars

\* C30: an Extension or Extensions call that panics on an empty or reserved
\* key leaves the explicit extensions of the Builder as they were, an unset
\* map staying unset, and the Builder resolves to the extensions it would
\* have resolved to without the call.
C30_PanicLeavesExtensionsUntouched ==
    [][ act' = "Panic" =>
          /\ (b'.extensions = NilMap) = (b.extensions = NilMap)
          /\ ExplicitExtensions(heap', b') = ExplicitExtensions(heap, b)
          /\ ResolvedExtensions(gen, b', heap') = ResolvedExtensions(gen, b, heap)
      ]_vars

----------------------------------------------------------------------------
(* Properties of Builder.Reset (specification SpecFlag) *)

\* C25: after Builder.Reset, whatever preceded it, the Builder is in the
\* state of a newly created Builder of the Generator and resolves to the same
\* Problem as one (both generating their stack trace and uuid afresh), and
\* the Reset leaves the Generator unchanged.
C25_ResetIsLikeNewBuilder ==
    [][ act' = "Reset" =>
          /\ gen' = gen
          /\ b' = NewBuilder
          /\ LET r == build(gen', b', heap', 1, stackCalls', uuidCalls')
                 n == build(gen, NewBuilder, heap', 1, stackCalls', uuidCalls')
             IN /\ SameProblem(r.prob, r.heap, n.prob, n.heap)
                /\ LogInfo(r.prob) = LogInfo(n.prob)
      ]_vars

\* C25 witness: a Reset of a Builder that had wrapped an error or been given
\* a flag, and whose earlier resolution had cached a captured stack trace or
\* a generated uuid
C25_Witness ==
    /\ act = "Reset"
    /\ b = NewBuilder
    /\ prob.kind = "problem"
    /\ stackCalls + uuidCalls > 0
    /\ nSet = 2

----------------------------------------------------------------------------
(* Properties of Builder.Clone (specification SpecClone) *)

\* Builder bb on heap h and Builder cc on heap h2 resolve to the same Problem
\* (a stack trace or uuid neither has cached being generated alike)
SameResolution(bb, h, cc, h2) ==
    LET r == build(gen, bb, h, 1, 0, 0)
        q == build(gen, cc, h2, 1, 0, 0)
    IN /\ r.prob.kind = q.prob.kind
       /\ r.prob.kind = "problem" =>
             /\ SameProblem(r.prob, r.heap, q.prob, q.heap)
             /\ LogInfo(r.prob) = LogInfo(q.prob)

\* C26: the Builder that Clone returns resolves to the same Problem as the
\* original does at that time, and from then on no setter call on the clone
\* (Extension and Extensions included) changes what the original resolves
\* to, and no setter call on the original what the clone resolves to.
C26_CloneIsIndependent ==
    [][ /\ act' = "Clone" => SameResolution(call'.b, heap', b, heap)
        /\ (call.fn = "Clone" /\ act' \in {"CloneSet", "ClonePanic"}) =>
              SameResolution(b', heap', b, heap)
        /\ (call.fn = "Clone" /\ act' \in {"Set", "Panic"}) =>
              SameResolution(call'.b, heap', call.b, heap)
      ]_vars

\* C26 witness: the original had explicit extensions when it was cloned and
\* a later Extension or Extensions call on the clone made the extensions of
\* the clone differ from those of the original
C26_Witness ==
    /\ call.fn = "Clone"
    /\ act = "CloneSet"
    /\ DOMAIN ExplicitExtensions(heap, b) # {}
    /\ call.b.extensions # NilMap
    /\ ExplicitExtensions(heap, call.b) # ExplicitExtensions(heap, b)

----------------------------------------------------------------------------
(* Properties of resolutions that share objects (specification SpecShared) *)

\* the resolution of Builder bb when no other Builder has run: the maps of
\* the Definition and of the wrapped Problem are as they were created
Alone(bb) == build(gen, bb, InitHeap, 1, stackCalls, uuidCalls)

\* Problem p on heap h is the Problem of the resolution r
SameAsAlone(p, h, r) ==
    /\ p.kind = r.prob.kind
    /\ p.kind = "problem" => SameProblem(p, h, r.prob, r.heap)

\* C27: a Problem() call of either Builder leaves the Generator, every map
\* that exists (those of the Definition and of the wrapped Problem among
\* them) and the Definition, wrapped error and inherited Problem of both
\* Builders as they were; so, however the resolutions of the two Builders
\* interleave, each returns the Problem it returns when it runs alone.
C27_ResolutionWritesNothingShared ==
    [][ act' \in {"Problem", "OtherProblem"} =>
          /\ gen' = gen
          /\ \A r \in 1..Len(heap) : heap'[r] = heap[r]
          /\ b'.def = b.def /\ b'.problem = b.problem /\ b'.err = b.err
          /\ call'.b.def = call.b.def /\ call'.b.problem = call.b.problem
          /\ call'.b.err = call.b.err
          /\ act' = "Problem" => SameAsAlone(prob', heap', Alone(b))
          /\ act' = "OtherProblem" => SameAsAlone(ret'.prob, heap', Alone(call.b))
      ]_vars

\* C27 witness: both Builders have resolved, one after the other, to Problems
\* with equal, non-empty extensions held in distinct maps
C27_Witness ==
    /\ act = "OtherProblem"
    /\ prob.kind = "problem"
    /\ ret.prob.kind = "problem"
    /\ DOMAIN ExtensionsOf(heap, prob) # {}
    /\ ExtensionsOf(heap, ret.prob) = ExtensionsOf(heap, prob)
    /\ ret.prob.Extensions # prob.Extensions
    /\ b.problem.Extensions # NilMap

----------------------------------------------------------------------------
(* Properties of uri.Builder (specification SpecURI) *)

\* C28: uri.Builder.URL() returns a URL without faulting whatever the base
\* and the path are; the path of the URL ends with '/' when the last
\* trailing-slash setting was TrailingSlash() or TrailingSlash(true) and does
\* not end with '/' when it was TrailingSlash(false).
C28_URLNeverFaultsAndTrailingSlashHolds ==
    [][ act' = "URL" =>
          /\ ret'.kind = "url"
          /\ call.trailingSlash = Of(1) =>
                (ret'.url.Path # <<>> /\ ret'.url.Path[Len(ret'.url.Path)] = "/")
          /\ call.trailingSlash = Of(0) =>
                (ret'.url.Path = <<>> \/ ret'.url.Path[Len(ret'.url.Path)] # "/")
      ]_vars

----------------------------------------------------------------------------
(* Properties of stack.Take (specification SpecStack) *)

\* C29: Take(skip) called depth frames deep returns the frames from the
\* caller of Take offset by skip down to the function the goroutine runs,
\* depth - skip of them, however many there are: a stack 500 calls deep
\* yields all 500 frames; and the loop of Capture that doubles the storage
\* terminates.
C29_TakeReturnsEveryFrame ==
    /\ [](ret.fn = "Take" =>
            /\ ret.frames = IF ret.depth > ret.skip THEN ret.depth - ret.skip ELSE 0
            /\ (ret.depth = 500 /\ ret.skip = 0) => ret.frames = 500)
    /\ (call.pc = "loop") ~> (call.pc = "idle")

\* C29 witness: Take(0) 500 frames deep returned 500 frames and left storage
\* larger than the initial one in the pool
C29_Witness ==
    /\ ret.fn = "Take"
    /\ ret.depth = 500 /\ ret.skip = 0
    /\ ret.frames = 500
    /\ call.pc = "idle"
    /\ call.storage > InitialStorage

====
